---- MODULE Spec2Model ----
(***************************************************************************)
(* Model of the dbkit storage core: the Block / Column containers, the     *)
(* column aliases and windows of src/block.rs, the ChainedArena of         *)
(* src/allocator.rs and the Table of src/table.rs with its value setters.  *)
(*                                                                         *)
(* The Allocator is a trait, so every allocate / resize call may succeed   *)
(* or fail: an operation takes the number of the allocator call that       *)
(* fails (0: none does).  A handler returns at its first failing call, so  *)
(* one number names every outcome of a call sequence.                      *)
(***************************************************************************)
EXTENDS Integers, Sequences, FiniteSets, TLC

VARIABLES
    schema,     \* Block.schema: the attributes, in order
    columns,    \* Block.columns: one Column per attribute
    rows,       \* Block.rows
    capacity,   \* Block.capacity
    calls,      \* number of Block calls made so far (bounds the exploration)
    last,       \* the last Block call: operation, argument, result, pre-state
    arena,      \* a ChainedArena: chunks, min_size, max_size, pos
    issued,     \* every region an append returned, with the bytes appended
    acalls,     \* number of arena calls made so far (bounds the exploration)
    alast,      \* the last arena call: operation, argument, result, pre-state
    vlast,      \* the last alias_column / window_alias call: arguments and result
    garbage,    \* the byte that memory fresh from the allocator holds
    cells,      \* the memory of column 0: its row values and its null bytes
    written,    \* what was last stored in each row value and null byte of column 0
    tlast,      \* the last call on the table or its column: arguments and result
    in_schema,  \* a Schema with named attributes: the input of the projector
    builder,    \* the Projector list of a BuildSingleSourceProjector
    slast,      \* the last Schema / projector call: arguments and result
    heap,       \* alloc::heap: the buffer at each address
    owned,      \* the OwnedChunk of each caller of the allocator
    pc,         \* where each caller is: idle, inside a resize, or its chunk dropped
    want,       \* the size a caller inside a resize asked for
    achunks,    \* ChainedArena.chunks over the heap: address and length of each
    adropped,   \* whether that arena has been dropped
    hlast,      \* the last allocator call: arguments, result and the chunk before it
    appender,   \* a TableAppender: row, col, error
    tdata,      \* the memory of every column of the appender's table
    chain,      \* the calls of the appender's chain so far, and the last of them
    cursor,     \* a ScanViewCursor: src, offset
    clast,      \* the last cursor call: arguments, result and what was returned before
    mlast       \* the last BoundOneColMapper::map call: the columns before it, the result

vars == <<schema, columns, rows, capacity, calls, last, arena, issued, acalls, alast, vlast,
          garbage, cells, written, tlast, in_schema, builder, slast,
          heap, owned, pc, want, achunks, adropped, hlast,
          appender, tdata, chain, cursor, clast, mlast>>
blockVars == <<schema, columns, rows, capacity, calls, last>>
arenaVars == <<arena, issued, acalls, alast>>
viewVars == <<vlast>>
tableVars == <<garbage, cells, written, tlast>>
schemaVars == <<in_schema, builder, slast>>
heapVars == <<heap, owned, pc, want, achunks, adropped, hlast>>
appenderVars == <<appender, tdata, chain>>
cursorVars == <<cursor, clast>>
opVars == <<appenderVars, cursorVars, mlast>>

----------------------------------------------------------------------------
(* Bounds of the exploration *)

MaxCols == 2          \* attributes in a schema
MaxCalls == 3         \* Block calls in a run
MaxCapacity == 4096   \* largest capacity a call may ask for
MaxArenaCalls == 3    \* arena calls in a run
MaxValueLen == 5      \* longest value appended to the arena
MaxMinSize == 2       \* largest min_size an arena is created with
MaxViewCap == 4       \* largest capacity of a block that is aliased
MaxTableCap == 2      \* largest capacity of a table that is written to
MaxSchemaLen == 2     \* attributes handed to Schema::from_slice
MaxProjs == 2         \* projectors in a builder
MaxAddrs == 3         \* addresses of the heap
MaxChunkSize == 2     \* largest size a chunk is allocated or resized to
MaxArenaChunks == 1   \* chunks the arena over the heap takes

(* Program constants *)

MIN_ALIGN == 32
ROW_INCREMENT == 1024

ARENA_MIN_SIZE == MIN_ALIGN
ARENA_MAX_SIZE == 16 * 1024 * 1024

----------------------------------------------------------------------------
(* util/math.rs *)

round_up(n, m) ==
    IF n >= 0 THEN ((n + m - 1) \div m) * m
    ELSE -(((-n) \div m) * m)

Min(a, b) == IF a <= b THEN a ELSE b

----------------------------------------------------------------------------
(* types.rs, schema.rs *)

size_of(dtype) ==
    CASE dtype = "UINT32" -> 4
      [] dtype = "UINT64" -> 8
      [] dtype = "BOOLEAN" -> 1
      [] dtype = "TEXT" -> 16
      [] dtype = "BLOB" -> 16

Attribute(dtype, nullable) == [dtype |-> dtype, nullable |-> nullable]

BlockAttributes == {Attribute("UINT32", TRUE), Attribute("TEXT", FALSE)}

SeqsUpTo(S, n) == UNION {[1..k -> S] : k \in 0..n}

----------------------------------------------------------------------------
(* allocator.rs: OwnedChunk and the Allocator trait *)

OwnedChunk_empty == [parent |-> FALSE, isnull |-> TRUE, len |-> 0]

\* Allocator::allocate: a chunk of `size` bytes owned by the allocator, or Memory
Allocator_allocate(size, succeeds) ==
    IF succeeds
    THEN [ok |-> TRUE, chunk |-> [parent |-> TRUE, isnull |-> FALSE, len |-> size]]
    ELSE [ok |-> FALSE, chunk |-> OwnedChunk_empty]

\* OwnedChunk::resize: delegates to the owning allocator; a chunk with no parent
\* fails without calling the allocator.  A failed resize keeps the old buffer.
OwnedChunk_resize(chunk, size, k, failAt) ==
    IF chunk.parent
    THEN IF k + 1 # failAt
         THEN [chunk |-> [chunk EXCEPT !.isnull = FALSE, !.len = size],
               status |-> "None", k |-> k + 1]
         ELSE [chunk |-> chunk, status |-> "Memory", k |-> k + 1]
    ELSE [chunk |-> chunk, status |-> "Memory", k |-> k]

----------------------------------------------------------------------------
(* block.rs: Column *)

Column_new(attr) == [attr |-> attr, raw_nulls |-> OwnedChunk_empty, raw |-> OwnedChunk_empty]

Column_capacity(col) == col.raw.len \div size_of(col.attr.dtype)

\* Column::set_capacity(rows); k allocator calls were made before it
Column_set_capacity(col, nrows, k, failAt) ==
    LET new_size == nrows * size_of(col.attr.dtype) IN
    IF col.raw.isnull
    THEN LET r1 == Allocator_allocate(new_size, k + 1 # failAt) IN
         IF ~r1.ok
         THEN [col |-> col, status |-> "Memory", k |-> k + 1]
         ELSE LET c1 == [col EXCEPT !.raw = r1.chunk] IN
              IF col.attr.nullable
              THEN LET r2 == Allocator_allocate(nrows, k + 2 # failAt) IN
                   IF ~r2.ok
                   THEN [col |-> c1, status |-> "Memory", k |-> k + 2]
                   ELSE [col |-> [c1 EXCEPT !.raw_nulls = r2.chunk],
                         status |-> "None", k |-> k + 2]
              ELSE [col |-> c1, status |-> "None", k |-> k + 1]
    ELSE LET s1 == OwnedChunk_resize(col.raw, new_size, k, failAt) IN
         IF s1.status # "None"
         THEN [col |-> col, status |-> s1.status, k |-> s1.k]
         ELSE LET c1 == [col EXCEPT !.raw = s1.chunk] IN
              IF col.attr.nullable
              THEN LET s2 == OwnedChunk_resize(col.raw_nulls, nrows, s1.k, failAt) IN
                   IF s2.status # "None"
                   THEN [col |-> c1, status |-> s2.status, k |-> s2.k]
                   ELSE [col |-> [c1 EXCEPT !.raw_nulls = s2.chunk],
                         status |-> "None", k |-> s2.k]
              ELSE [col |-> c1, status |-> "None", k |-> s1.k]

----------------------------------------------------------------------------
(* block.rs: Block *)

Block_new(sch) ==
    [columns |-> [i \in 1..Len(sch) |-> Column_new(sch[i])], rows |-> 0, capacity |-> 0]

\* the loop of Block::set_capacity over the columns from position i on
RECURSIVE set_capacity_columns(_, _, _, _, _)
set_capacity_columns(cols, i, row_cap, k, failAt) ==
    IF i > Len(cols)
    THEN [columns |-> cols, status |-> "None"]
    ELSE LET r == Column_set_capacity(cols[i], row_cap, k, failAt) IN
         IF r.status # "None"
         THEN [columns |-> [cols EXCEPT ![i] = r.col], status |-> r.status]
         ELSE set_capacity_columns([cols EXCEPT ![i] = r.col], i + 1, row_cap, r.k, failAt)

\* Block::set_capacity without the clipping of rows to a smaller capacity
Block_set_capacity_keeps_rows(b, row_cap, failAt) ==
    LET r == set_capacity_columns(b.columns, 1, row_cap, 0, failAt) IN
    IF r.status # "None"
    THEN [block |-> [b EXCEPT !.columns = r.columns], status |-> r.status]
    ELSE [block |-> [columns |-> r.columns, capacity |-> row_cap, rows |-> b.rows],
          status |-> "None"]

\* Block::set_capacity storing the new capacity before the columns have grown
Block_set_capacity_commits_first(b, row_cap, failAt) ==
    LET r == set_capacity_columns(b.columns, 1, row_cap, 0, failAt) IN
    IF r.status # "None"
    THEN [block |-> [b EXCEPT !.columns = r.columns, !.capacity = row_cap],
          status |-> r.status]
    ELSE [block |-> [columns |-> r.columns,
                     capacity |-> row_cap,
                     rows |-> IF row_cap < b.rows THEN row_cap ELSE b.rows],
          status |-> "None"]

\* Block::set_capacity(row_cap) on block b
Block_set_capacity(b, row_cap, failAt) ==
    LET r == set_capacity_columns(b.columns, 1, row_cap, 0, failAt) IN
    IF r.status # "None"
    THEN [block |-> [b EXCEPT !.columns = r.columns], status |-> r.status]
    ELSE [block |-> [columns |-> r.columns,
                     capacity |-> row_cap,
                     rows |-> IF row_cap < b.rows THEN row_cap ELSE b.rows],
          status |-> "None"]

\* Block::add_row taking a full block (capacity = rows) as having room
Block_add_row_full_has_room(b, failAt) ==
    IF b.capacity >= b.rows
    THEN [block |-> [b EXCEPT !.rows = @ + 1], ok |-> TRUE, rowid |-> b.rows, err |-> "None"]
    ELSE LET r == Block_set_capacity(b, b.capacity + ROW_INCREMENT, failAt)
         IN IF r.status # "None"
            THEN [block |-> r.block, ok |-> FALSE, rowid |-> 0, err |-> r.status]
            ELSE [block |-> [r.block EXCEPT !.rows = @ + 1],
                  ok |-> TRUE, rowid |-> b.rows, err |-> "None"]

\* Block::add_row on block b
Block_add_row(b, failAt) ==
    IF b.capacity > b.rows
    THEN [block |-> [b EXCEPT !.rows = @ + 1], ok |-> TRUE, rowid |-> b.rows, err |-> "None"]
    ELSE LET rowid == b.rows
             new_cap == b.capacity + ROW_INCREMENT
             r == Block_set_capacity(b, new_cap, failAt)
         IN IF r.status # "None"
            THEN [block |-> r.block, ok |-> FALSE, rowid |-> 0, err |-> r.status]
            ELSE [block |-> [r.block EXCEPT !.rows = @ + 1],
                  ok |-> TRUE, rowid |-> rowid, err |-> "None"]

\* Block::add_rows growing to capacity + n without rounding up
Block_add_rows_unrounded(b, n, failAt) ==
    IF b.capacity > b.rows + n
    THEN [block |-> [b EXCEPT !.rows = @ + n],
          ok |-> TRUE, rowid |-> b.rows + n, err |-> "None"]
    ELSE LET r == Block_set_capacity(b, b.capacity + n, failAt)
         IN IF r.status # "None"
            THEN [block |-> r.block, ok |-> FALSE, rowid |-> 0, err |-> r.status]
            ELSE [block |-> [r.block EXCEPT !.rows = @ + n],
                  ok |-> TRUE, rowid |-> b.rows, err |-> "None"]

\* Block::add_rows(n) on block b
Block_add_rows(b, n, failAt) ==
    IF b.capacity > b.rows + n
    THEN [block |-> [b EXCEPT !.rows = @ + n],
          ok |-> TRUE, rowid |-> b.rows + n, err |-> "None"]
    ELSE LET rowid == b.rows
             new_cap == round_up(b.capacity + n, ROW_INCREMENT)
             r == Block_set_capacity(b, new_cap, failAt)
         IN IF r.status # "None"
            THEN [block |-> r.block, ok |-> FALSE, rowid |-> 0, err |-> r.status]
            ELSE [block |-> [r.block EXCEPT !.rows = @ + n],
                  ok |-> TRUE, rowid |-> rowid, err |-> "None"]

----------------------------------------------------------------------------
(* allocator.rs: ChainedArena *)

\* A chunk is its bytes; 0 is a byte never written.  A pointer is the (0-based)
\* position of a chunk in the chunk list and an offset from that chunk's start.
ChainedArena_new(min_size, max_size) ==
    [chunks |-> <<>>, min_size |-> min_size, max_size |-> max_size, pos |-> 0]

NullPtr == [chunk |-> 0, off |-> 0]

\* ChainedArena::allocate checking the size limit only after the chunk is added
ChainedArena_allocate_late_limit(a, size, succeeds) ==
    IF Len(a.chunks) > 0 /\ Len(a.chunks[Len(a.chunks)]) - a.pos >= size
    THEN [arena |-> [a EXCEPT !.pos = @ + size], ok |-> TRUE, err |-> "None",
          ptr |-> [chunk |-> Len(a.chunks) - 1, off |-> size]]
    ELSE LET new_size == IF Len(a.chunks) > 0
                         THEN Min(Len(a.chunks[Len(a.chunks)]) * 2, a.max_size)
                         ELSE a.min_size
             grown == [a EXCEPT !.chunks = Append(@, [i \in 1..new_size |-> 0])]
         IN IF ~succeeds
            THEN [arena |-> a, ok |-> FALSE, err |-> "Memory", ptr |-> NullPtr]
            ELSE IF size > a.max_size
            THEN [arena |-> grown, ok |-> FALSE, err |-> "MemoryLimit", ptr |-> NullPtr]
            ELSE [arena |-> grown, ok |-> TRUE, err |-> "None",
                  ptr |-> [chunk |-> Len(a.chunks), off |-> 0]]

\* ChainedArena::allocate doubling the chunk size without the max_size cap
ChainedArena_allocate_uncapped(a, size, succeeds) ==
    IF size > a.max_size
    THEN [arena |-> a, ok |-> FALSE, err |-> "MemoryLimit", ptr |-> NullPtr]
    ELSE IF Len(a.chunks) > 0 /\ Len(a.chunks[Len(a.chunks)]) - a.pos >= size
    THEN [arena |-> [a EXCEPT !.pos = @ + size], ok |-> TRUE, err |-> "None",
          ptr |-> [chunk |-> Len(a.chunks) - 1, off |-> size]]
    ELSE LET new_size == IF Len(a.chunks) > 0
                         THEN Len(a.chunks[Len(a.chunks)]) * 2
                         ELSE a.min_size
         IN IF ~succeeds
            THEN [arena |-> a, ok |-> FALSE, err |-> "Memory", ptr |-> NullPtr]
            ELSE [arena |-> [a EXCEPT !.chunks = Append(@, [i \in 1..new_size |-> 0])],
                  ok |-> TRUE, err |-> "None",
                  ptr |-> [chunk |-> Len(a.chunks), off |-> 0]]

\* ChainedArena::allocate(size); `succeeds`: the outcome of make_arena, if called
ChainedArena_allocate(a, size, succeeds) ==
    IF size > a.max_size
    THEN [arena |-> a, ok |-> FALSE, err |-> "MemoryLimit", ptr |-> NullPtr]
    ELSE IF Len(a.chunks) > 0 /\ Len(a.chunks[Len(a.chunks)]) - a.pos >= size
    THEN [arena |-> [a EXCEPT !.pos = @ + size], ok |-> TRUE, err |-> "None",
          ptr |-> [chunk |-> Len(a.chunks) - 1, off |-> size]]
    ELSE LET new_size == IF Len(a.chunks) > 0
                         THEN Min(Len(a.chunks[Len(a.chunks)]) * 2, a.max_size)
                         ELSE a.min_size
         IN IF ~succeeds
            THEN [arena |-> a, ok |-> FALSE, err |-> "Memory", ptr |-> NullPtr]
            ELSE [arena |-> [a EXCEPT !.chunks = Append(@, [i \in 1..new_size |-> 0])],
                  ok |-> TRUE, err |-> "None",
                  ptr |-> [chunk |-> Len(a.chunks), off |-> 0]]

\* ptr::copy_nonoverlapping(data, ptr, len): the bytes that fall inside the chunk
copy_nonoverlapping(chunks, ptr, data) ==
    [chunks EXCEPT ![ptr.chunk + 1] =
        [j \in 1..Len(@) |->
            IF j > ptr.off /\ j <= ptr.off + Len(data) THEN data[j - ptr.off] ELSE @[j]]]

\* does [ptr, ptr + size) lie inside the chunk ptr points into
InsideChunk(chunks, ptr, size) ==
    /\ ptr.chunk + 1 \in 1..Len(chunks)
    /\ ptr.off + size <= Len(chunks[ptr.chunk + 1])

\* ChainedArena::append(data): the index returned is chunks.len() after the call
ChainedArena_append(a, data, succeeds) ==
    LET r == ChainedArena_allocate(a, Len(data), succeeds) IN
    IF ~r.ok
    THEN [arena |-> a, ok |-> FALSE, err |-> r.err, ptr |-> NullPtr, index |-> 0,
          overrun |-> FALSE]
    ELSE [arena |-> [r.arena EXCEPT !.chunks = copy_nonoverlapping(@, r.ptr, data)],
          ok |-> TRUE, err |-> "None", ptr |-> r.ptr, index |-> Len(r.arena.chunks),
          overrun |-> ~InsideChunk(r.arena.chunks, r.ptr, Len(data))]

----------------------------------------------------------------------------
(* Aliases: AliasColumn, alias_column, RefView, window_alias.              *)
(* A byte slice is the pair of its first byte, counted from the start of   *)
(* the owning chunk, and its length.  A call returns Ok, an error, or      *)
(* panics on a slice bound.                                                *)

Slice(start, len) == [start |-> start, len |-> len]

\* a RowRange argument, and the absent one
SomeRange(offset, nrows) == [some |-> TRUE, offset |-> offset, rows |-> nrows]

NoRange == [some |-> FALSE, offset |-> 0, rows |-> 0]

\* the RefColumn face of a Column: rows_raw_slice and nulls_raw_slice
\* (the empty slice when the chunk holds no data)
Column_as_ref(col) ==
    [attr |-> col.attr,
     raw |-> Slice(0, col.raw.len),
     raw_nulls |-> Slice(0, col.raw_nulls.len)]

\* RefColumn::capacity, the same expression for Column and AliasColumn
RefColumn_capacity(src) == src.raw.len \div size_of(src.attr.dtype)

NoAlias == [attr |-> Attribute("UINT32", FALSE), raw |-> Slice(0, 0), raw_nulls |-> Slice(0, 0)]

\* alias_column taking the slices before it checks the range
alias_column_slices_first(src, range) ==
    LET offset == IF range.some THEN range.offset ELSE 0
        nrows == IF range.some THEN range.rows ELSE RefColumn_capacity(src)
        w == size_of(src.attr.dtype)
        start == offset * w
        len == nrows + w
    IN IF start + len > src.raw.len
       THEN [kind |-> "Panic", err |-> "None", alias |-> NoAlias]
       ELSE IF src.attr.nullable /\ offset + nrows > src.raw_nulls.len
       THEN [kind |-> "Panic", err |-> "None", alias |-> NoAlias]
       ELSE IF offset + nrows > RefColumn_capacity(src)
       THEN [kind |-> "Err", err |-> "RowOutOfBounds", alias |-> NoAlias]
       ELSE [kind |-> "Ok", err |-> "None",
             alias |-> [attr |-> src.attr,
                        raw |-> Slice(src.raw.start + start, len),
                        raw_nulls |-> IF src.attr.nullable
                                      THEN Slice(src.raw_nulls.start + offset, nrows)
                                      ELSE Slice(0, 0)]]

\* alias_column(src, range)
alias_column(src, range) ==
    LET offset == IF range.some THEN range.offset ELSE 0
        nrows == IF range.some THEN range.rows ELSE RefColumn_capacity(src)
        w == size_of(src.attr.dtype)
        start == offset * w
        len == nrows + w
    IN IF offset + nrows > RefColumn_capacity(src)
       THEN [kind |-> "Err", err |-> "RowOutOfBounds", alias |-> NoAlias]
       ELSE IF start + len > src.raw.len
       THEN [kind |-> "Panic", err |-> "None", alias |-> NoAlias]
       ELSE IF src.attr.nullable /\ offset + nrows > src.raw_nulls.len
       THEN [kind |-> "Panic", err |-> "None", alias |-> NoAlias]
       ELSE [kind |-> "Ok", err |-> "None",
             alias |-> [attr |-> src.attr,
                        raw |-> Slice(src.raw.start + start, len),
                        raw_nulls |-> IF src.attr.nullable
                                      THEN Slice(src.raw_nulls.start + offset, nrows)
                                      ELSE Slice(0, 0)]]

\* the View face of a Block: schema, columns, rows
Block_as_view(sch, b) ==
    [schema |-> sch,
     columns |-> [i \in 1..Len(b.columns) |-> Column_as_ref(b.columns[i])],
     rows |-> b.rows]

NoView == [schema |-> <<>>, columns |-> <<>>, rows |-> 0]

\* alias_columns(src, range): the aliases of columns pos.. of the view, after `out`;
\* the first column that fails ends the loop
RECURSIVE alias_columns(_, _, _, _)
alias_columns(src, range, pos, out) ==
    IF pos > Len(src.columns)
    THEN [kind |-> "Ok", err |-> "None", columns |-> out]
    ELSE LET r == alias_column(src.columns[pos], range)
         IN IF r.kind # "Ok"
            THEN [kind |-> r.kind, err |-> r.err, columns |-> <<>>]
            ELSE alias_columns(src, range, pos + 1, Append(out, r.alias))

\* window_alias giving the view the row count of the source, whatever the range
window_alias_source_rows(src, range) ==
    LET offset == IF range.some THEN range.offset ELSE 0
        nrows == IF range.some THEN range.rows ELSE src.rows
    IN IF offset + nrows > src.rows
       THEN [kind |-> "Err", err |-> "RowOutOfBounds", view |-> NoView]
       ELSE LET r == alias_columns(src, range, 1, <<>>)
            IN IF r.kind # "Ok"
               THEN [kind |-> r.kind, err |-> r.err, view |-> NoView]
               ELSE [kind |-> "Ok", err |-> "None",
                     view |-> [schema |-> src.schema, columns |-> r.columns,
                               rows |-> src.rows]]

\* window_alias(src, range)
window_alias(src, range) ==
    LET offset == IF range.some THEN range.offset ELSE 0
        nrows == IF range.some THEN range.rows ELSE src.rows
    IN IF offset + nrows > src.rows
       THEN [kind |-> "Err", err |-> "RowOutOfBounds", view |-> NoView]
       ELSE LET r == alias_columns(src, range, 1, <<>>)
            IN IF r.kind # "Ok"
               THEN [kind |-> r.kind, err |-> r.err, view |-> NoView]
               ELSE [kind |-> "Ok", err |-> "None",
                     view |-> [schema |-> src.schema, columns |-> r.columns, rows |-> nrows]]

(* The same two functions with the arithmetic of usize.  RowOffset is a   *)
(* machine word: a sum or product past the word wraps around in a build   *)
(* without overflow checks and panics in a build with them.               *)

WordBits == 5         \* bits of the machine word of the model

Word == 2 ^ WordBits

\* alias_column(src, range) on words; checks: the build has overflow checks
alias_column_usize(src, range, checks) ==
    LET offset == IF range.some THEN range.offset ELSE 0
        nrows == IF range.some THEN range.rows ELSE RefColumn_capacity(src)
        w == size_of(src.attr.dtype)
        start == (offset * w) % Word
        len == (nrows + w) % Word
        last_row == (offset + nrows) % Word
        end == (start + len) % Word
    IN IF checks /\ (offset * w >= Word \/ nrows + w >= Word \/ offset + nrows >= Word)
       THEN [kind |-> "Panic", err |-> "None", alias |-> NoAlias]
       ELSE IF last_row > RefColumn_capacity(src)
       THEN [kind |-> "Err", err |-> "RowOutOfBounds", alias |-> NoAlias]
       ELSE IF (checks /\ start + len >= Word) \/ start > end \/ end > src.raw.len
       THEN [kind |-> "Panic", err |-> "None", alias |-> NoAlias]
       ELSE IF src.attr.nullable /\ (offset > last_row \/ last_row > src.raw_nulls.len)
       THEN [kind |-> "Panic", err |-> "None", alias |-> NoAlias]
       ELSE [kind |-> "Ok", err |-> "None",
             alias |-> [attr |-> src.attr,
                        raw |-> Slice(src.raw.start + start, len),
                        raw_nulls |-> IF src.attr.nullable
                                      THEN Slice(src.raw_nulls.start + offset, nrows)
                                      ELSE Slice(0, 0)]]

\* alias_columns(src, range) on words
RECURSIVE alias_columns_usize(_, _, _, _, _)
alias_columns_usize(src, range, checks, pos, out) ==
    IF pos > Len(src.columns)
    THEN [kind |-> "Ok", err |-> "None", columns |-> out]
    ELSE LET r == alias_column_usize(src.columns[pos], range, checks)
         IN IF r.kind # "Ok"
            THEN [kind |-> r.kind, err |-> r.err, columns |-> <<>>]
            ELSE alias_columns_usize(src, range, checks, pos + 1, Append(out, r.alias))

\* window_alias(src, range) on words
window_alias_usize(src, range, checks) ==
    LET offset == IF range.some THEN range.offset ELSE 0
        nrows == IF range.some THEN range.rows ELSE src.rows
    IN IF checks /\ offset + nrows >= Word
       THEN [kind |-> "Panic", err |-> "None", view |-> NoView]
       ELSE IF (offset + nrows) % Word > src.rows
       THEN [kind |-> "Err", err |-> "RowOutOfBounds", view |-> NoView]
       ELSE LET r == alias_columns_usize(src, range, checks, 1, <<>>)
            IN IF r.kind # "Ok"
               THEN [kind |-> r.kind, err |-> r.err, view |-> NoView]
               ELSE [kind |-> "Ok", err |-> "None",
                     view |-> [schema |-> src.schema, columns |-> r.columns, rows |-> nrows]]

----------------------------------------------------------------------------
(* The memory of a Column.  A chunk of row values is the sequence of its   *)
(* values, a chunk of nulls the sequence of its bytes.  The allocator      *)
(* does not clear memory: a value never written is made of the bytes the   *)
(* memory held.  A TEXT / BLOB value is a RawData: a pointer into the      *)
(* column's arena and a size.                                              *)

RawData(ptr, size) == [data |-> ptr, size |-> size]

\* a row value made of the byte g only
Uninit(dtype, g) ==
    IF dtype \in {"TEXT", "BLOB"} THEN RawData([chunk |-> -1, off |-> g], g) ELSE g

\* the memory of a chunk fresh from Allocator::allocate: n values, none written
allocate_data(n, fresh) == [i \in 1..n |-> fresh]

\* HeapAllocator::resize losing the contents when the chunk is moved
HeapAllocator_resize_blank_move(old, n, fresh, inplace) ==
    IF inplace
    THEN [i \in 1..n |-> IF i <= Len(old) THEN old[i] ELSE fresh]
    ELSE [i \in 1..n |-> fresh]

\* the memory of a chunk after HeapAllocator::resize: heap::reallocate_inplace
\* (inplace) and heap::reallocate both keep the contents up to the smaller size
HeapAllocator_resize(old, n, fresh, inplace) ==
    IF inplace
    THEN [i \in 1..n |-> IF i <= Len(old) THEN old[i] ELSE fresh]
    ELSE [i \in 1..n |-> IF i <= Len(old) THEN old[i] ELSE fresh]

\* the memory of a chunk after Column::set_capacity(n) took it from `old` to
\* `new`: untouched, allocated, or resized
chunk_data(old, new, data, n, fresh, inplace) ==
    IF new = old THEN data
    ELSE IF old.isnull THEN allocate_data(n, fresh)
    ELSE HeapAllocator_resize(data, n, fresh, inplace)

\* the memory of a column after Column::set_capacity(n) took it from `old` to `new`
Column_data(old, new, data, n, g, inplace) ==
    [values |-> chunk_data(old.raw, new.raw, data.values, n,
                           Uninit(old.attr.dtype, g), inplace),
     nulls |-> chunk_data(old.raw_nulls, new.raw_nulls, data.nulls, n, g, inplace)]

NoSlice == [kind |-> "Err", err |-> "None", values |-> <<>>, nulls |-> <<>>, wild |-> FALSE]

\* Column::nulls_mut
Column_nulls_mut(col, data) ==
    IF ~col.attr.nullable
    THEN [NoSlice EXCEPT !.err = "AttributeNullability"]
    ELSE [NoSlice EXCEPT !.kind = "Ok",
                         !.nulls = IF col.raw_nulls.isnull THEN <<>> ELSE data.nulls]

\* Column::rows_mut<T> accepting every T whose values have the column's width
Column_rows_mut_by_width(col, data, T) ==
    IF size_of(col.attr.dtype) # size_of(T)
    THEN [NoSlice EXCEPT !.err = "AttributeType"]
    ELSE [NoSlice EXCEPT !.kind = "Ok",
                         !.values = IF col.raw.isnull THEN <<>>
                                    ELSE SubSeq(data.values, 1, Column_capacity(col))]

\* Column::rows_mut<T>
Column_rows_mut(col, data, T) ==
    IF col.attr.dtype # T
    THEN [NoSlice EXCEPT !.err = "AttributeType"]
    ELSE [NoSlice EXCEPT !.kind = "Ok",
                         !.values = IF col.raw.isnull THEN <<>>
                                    ELSE SubSeq(data.values, 1, Column_capacity(col))]

\* Column::row_data_mut<T>
Column_row_data_mut(col, data, T) ==
    IF col.attr.dtype # T
    THEN [NoSlice EXCEPT !.err = "AttributeType"]
    ELSE [NoSlice EXCEPT !.kind = "Ok",
                         !.values = IF col.raw.isnull THEN <<>>
                                    ELSE SubSeq(data.values, 1, Column_capacity(col)),
                         !.nulls = IF col.raw_nulls.isnull THEN <<>> ELSE data.nulls]

\* column_row_data<T> on a Column: both slices are given capacity() elements;
\* `wild`: the null slice runs past the null chunk, g stands for what lies there
column_row_data(col, data, T, g) ==
    IF col.attr.dtype # T
    THEN [NoSlice EXCEPT !.err = "AttributeType"]
    ELSE LET n == Column_capacity(col) IN
         [NoSlice EXCEPT !.kind = "Ok",
                         !.values = IF col.raw.isnull THEN <<>>
                                    ELSE SubSeq(data.values, 1, n),
                         !.nulls = IF col.raw_nulls.isnull THEN <<>>
                                   ELSE [i \in 1..n |-> IF i <= Len(data.nulls)
                                                        THEN data.nulls[i] ELSE g],
                         !.wild = ~col.raw_nulls.isnull /\ n > Len(data.nulls)]

\* the values given to Table::set
U32(v) == [type |-> "u32", v |-> v, bytes |-> <<>>]

Str(bytes) == [type |-> "str", v |-> 0, bytes |-> bytes]

\* ValueSetter::set_row of a u32 and of a &str on column `col`, memory `data`,
\* arena `a`; `succeeds`: the outcome of the arena's allocator call, if made.
\* An index past the slice panics.
ValueSetter_set_row(value, col, data, a, row, succeeds) ==
    IF value.type = "u32"
    THEN LET s == Column_rows_mut(col, data, "UINT32") IN
         IF s.kind # "Ok"
         THEN [kind |-> "Err", err |-> s.err, data |-> data, arena |-> a, stored |-> 0]
         ELSE IF row >= Len(s.values)
         THEN [kind |-> "Panic", err |-> "None", data |-> data, arena |-> a, stored |-> 0]
         ELSE [kind |-> "Ok", err |-> "None", arena |-> a, stored |-> value.v,
               data |-> [data EXCEPT !.values[row + 1] = value.v]]
    ELSE LET r == ChainedArena_append(a, value.bytes, succeeds)
             s == Column_rows_mut(col, data, "TEXT")
             raw == RawData(r.ptr, Len(value.bytes))
         IN IF ~r.ok
            THEN [kind |-> "Err", err |-> r.err, data |-> data, arena |-> a, stored |-> 0]
            ELSE IF s.kind # "Ok"
            THEN [kind |-> "Err", err |-> s.err, data |-> data, arena |-> r.arena, stored |-> 0]
            ELSE IF row >= Len(s.values)
            THEN [kind |-> "Panic", err |-> "None", data |-> data, arena |-> r.arena,
                  stored |-> 0]
            ELSE [kind |-> "Ok", err |-> "None", arena |-> r.arena, stored |-> raw,
                  data |-> [data EXCEPT !.values[row + 1] = raw]]

\* a row test that lets the row after the last one through
Table_set_row_inclusive(b, data, a, col, row, value, succeeds) ==
    IF row > b.rows
    THEN [kind |-> "Err", err |-> "RowOutOfBounds", data |-> data, arena |-> a, stored |-> 0]
    ELSE IF col >= Len(b.columns)
    THEN [kind |-> "Err", err |-> "AttributeMissing", data |-> data, arena |-> a, stored |-> 0]
    ELSE ValueSetter_set_row(value, b.columns[col + 1], data, a, row, succeeds)

\* Table::set(col, row, value); data is the memory of column col
Table_set(b, data, a, col, row, value, succeeds) ==
    IF row >= b.rows
    THEN [kind |-> "Err", err |-> "RowOutOfBounds", data |-> data, arena |-> a, stored |-> 0]
    ELSE IF col >= Len(b.columns)
    THEN [kind |-> "Err", err |-> "AttributeMissing", data |-> data, arena |-> a, stored |-> 0]
    ELSE ValueSetter_set_row(value, b.columns[col + 1], data, a, row, succeeds)

\* Table::set_null(col, row, value); data is the memory of column col
Table_set_null(b, data, col, row, value) ==
    IF row >= b.rows
    THEN [kind |-> "Err", err |-> "RowOutOfBounds", data |-> data]
    ELSE IF col >= Len(b.columns)
    THEN [kind |-> "Err", err |-> "AttributeMissing", data |-> data]
    ELSE LET s == Column_nulls_mut(b.columns[col + 1], data) IN
         IF s.kind # "Ok"
         THEN [kind |-> "Err", err |-> s.err, data |-> data]
         ELSE IF row >= Len(s.nulls)
         THEN [kind |-> "Panic", err |-> "None", data |-> data]
         ELSE [kind |-> "Ok", err |-> "None",
               data |-> [data EXCEPT !.nulls[row + 1] = IF value THEN 1 ELSE 0]]

\* the bytes a RawData refers to: `size` bytes of the arena from its pointer
\* (0 stands for a byte outside the chunk)
RawData_bytes(chunks, raw) ==
    [j \in 1..raw.size |->
        IF raw.data.chunk + 1 \in 1..Len(chunks)
           /\ raw.data.off + j \in 1..Len(chunks[raw.data.chunk + 1])
        THEN chunks[raw.data.chunk + 1][raw.data.off + j]
        ELSE 0]

----------------------------------------------------------------------------
(* table.rs: Table::new and TableAppender.  A table is its block, the     *)
(* memory of each of its columns and the arena of its TEXT column; an     *)
(* Option<RowOffset> is a RowRange-like record with `some` and `rows`.    *)

\* Table::new(alloc, schema, capacity): the block that is sized is a local
\* of the constructor, the table is given another Block::new
Table_new(sch, cap, failAt) ==
    LET b == Block_new(sch)
        sized == IF cap.some THEN Block_set_capacity(b, cap.rows, failAt).block ELSE b
    IN [block |-> Block_new(sch), dropped |-> sized]

\* TableAppender::new(table)
TableAppender_new(t) == [row |-> t.block.rows, col |-> 0, error |-> "None"]

\* TableAppender::status
TableAppender_status(ap) == ap.error

\* TableAppender::done: error.take()
TableAppender_done(ap) == [appender |-> [ap EXCEPT !.error = "None"], returned |-> ap.error]

\* an add_row that leaves the column position where it was
TableAppender_add_row_keeps_col(ap, t, failAt, g, inplace) ==
    IF ap.error # "None" THEN [appender |-> ap, table |-> t]
    ELSE LET r == Block_add_row(t.block, failAt)
             n == t.block.capacity + ROW_INCREMENT
         IN [appender |-> IF r.ok THEN [ap EXCEPT !.row = r.rowid]
                          ELSE [ap EXCEPT !.error = r.err],
             table |-> [t EXCEPT !.block = r.block,
                                 !.data = [i \in 1..Len(t.data) |->
                                              Column_data(t.block.columns[i], r.block.columns[i],
                                                          t.data[i], n, g, inplace)]]]

\* TableAppender::add_row; g is the byte in fresh memory, inplace tells
\* whether a resize keeps the buffer where it is
TableAppender_add_row(ap, t, failAt, g, inplace) ==
    IF ap.error # "None" THEN [appender |-> ap, table |-> t]
    ELSE LET r == Block_add_row(t.block, failAt)
             n == t.block.capacity + ROW_INCREMENT
         IN [appender |-> IF r.ok THEN [ap EXCEPT !.col = 0, !.row = r.rowid]
                          ELSE [ap EXCEPT !.col = 0, !.error = r.err],
             table |-> [t EXCEPT !.block = r.block,
                                 !.data = [i \in 1..Len(t.data) |->
                                              Column_data(t.block.columns[i], r.block.columns[i],
                                                          t.data[i], n, g, inplace)]]]

\* a set that does not look at the error recorded before
TableAppender_set_unchecked(ap, t, value, succeeds) ==
    LET d == IF ap.col < Len(t.data) THEN t.data[ap.col + 1]
             ELSE [values |-> <<>>, nulls |-> <<>>]
        r == Table_set(t.block, d, t.arena, ap.col, ap.row, value, succeeds)
    IN [appender |-> [ap EXCEPT !.error = IF r.kind = "Err" THEN r.err ELSE "None",
                                !.col = @ + 1],
        table |-> [t EXCEPT !.data = IF ap.col < Len(t.data)
                                     THEN [@ EXCEPT ![ap.col + 1] = r.data] ELSE @,
                            !.arena = r.arena],
        kind |-> r.kind]

\* TableAppender::set(value)
TableAppender_set(ap, t, value, succeeds) ==
    IF ap.error # "None" THEN [appender |-> ap, table |-> t, kind |-> "Ok"]
    ELSE LET d == IF ap.col < Len(t.data) THEN t.data[ap.col + 1]
                  ELSE [values |-> <<>>, nulls |-> <<>>]
             r == Table_set(t.block, d, t.arena, ap.col, ap.row, value, succeeds)
         IN [appender |-> [ap EXCEPT !.error = IF r.kind = "Err" THEN r.err ELSE "None",
                                     !.col = @ + 1],
             table |-> [t EXCEPT !.data = IF ap.col < Len(t.data)
                                          THEN [@ EXCEPT ![ap.col + 1] = r.data] ELSE @,
                                 !.arena = r.arena],
             kind |-> r.kind]

\* TableAppender::set_null(value)
TableAppender_set_null(ap, t, value) ==
    IF ap.error # "None" THEN [appender |-> ap, table |-> t, kind |-> "Ok"]
    ELSE LET d == IF ap.col < Len(t.data) THEN t.data[ap.col + 1]
                  ELSE [values |-> <<>>, nulls |-> <<>>]
             r == Table_set_null(t.block, d, ap.col, ap.row, value)
         IN [appender |-> [ap EXCEPT !.error = IF r.kind = "Err" THEN r.err ELSE "None",
                                     !.col = @ + 1],
             table |-> [t EXCEPT !.data = IF ap.col < Len(t.data)
                                          THEN [@ EXCEPT ![ap.col + 1] = r.data] ELSE @],
             kind |-> r.kind]

----------------------------------------------------------------------------
(* util/column.rs: OneColMapper and BoundOneColMapper over UINT32         *)
(* columns.  An Option is a record with `some` and `v`.                   *)

\* the map_value of the mapper in use
map_value(v) == v + 10

\* OneColMapper::map, the default: in_val.map(|v| self.map_value(v))
OneColMapper_map(in_val) ==
    IF in_val.some THEN [some |-> TRUE, v |-> map_value(in_val.v)]
    ELSE [some |-> FALSE, v |-> 0]

\* the loop of BoundOneColMapper::map from index idx on: src the slices of
\* the input, out those of the output; an index past a slice panics
RECURSIVE map_rows(_, _, _, _, _)
map_rows(src, out, idx, in_nullable, out_nullable) ==
    IF idx >= Len(src.values) THEN [kind |-> "Ok", out |-> out]
    ELSE IF in_nullable /\ idx >= Len(src.nulls) THEN [kind |-> "Panic", out |-> out]
    ELSE LET in_val == IF in_nullable /\ src.nulls[idx + 1] # 0
                       THEN [some |-> FALSE, v |-> 0]
                       ELSE [some |-> TRUE, v |-> src.values[idx + 1]]
             out_val == OneColMapper_map(in_val)
             null == IF out_val.some THEN 1 ELSE 0
         IN IF out_nullable /\ idx >= Len(out.nulls) THEN [kind |-> "Panic", out |-> out]
            ELSE IF idx >= Len(out.values)
            THEN [kind |-> "Panic",
                  out |-> IF out_nullable THEN [out EXCEPT !.nulls[idx + 1] = null] ELSE out]
            ELSE map_rows(src,
                          [values |-> [out.values EXCEPT ![idx + 1] =
                                          IF out_val.some THEN out_val.v ELSE 0],
                           nulls |-> IF out_nullable
                                     THEN [out.nulls EXCEPT ![idx + 1] = null]
                                     ELSE out.nulls],
                          idx + 1, in_nullable, out_nullable)

\* BoundOneColMapper<IT, IN, OT, ON>::map(in_col, out_col, mapper); the
\* columns come with their memory, g stands for what lies past a null chunk
BoundOneColMapper_map(in_col, in_data, out_col, out_data, IT, in_nullable, OT, out_nullable, g) ==
    LET src_rows == column_row_data(in_col, in_data, IT, g)
        out_rows == Column_row_data_mut(out_col, out_data, OT)
        r == map_rows(src_rows, [values |-> out_rows.values, nulls |-> out_rows.nulls], 0,
                      in_nullable, out_nullable)
    IN IF src_rows.kind # "Ok"
       THEN [kind |-> "Err", err |-> src_rows.err, returned |-> 0, data |-> out_data]
       ELSE IF out_rows.kind # "Ok"
       THEN [kind |-> "Err", err |-> out_rows.err, returned |-> 0, data |-> out_data]
       ELSE [kind |-> r.kind, err |-> "None",
             returned |-> IF r.kind = "Ok" THEN Len(src_rows.values) ELSE 0,
             data |-> [values |-> r.out.values,
                       nulls |-> IF out_col.raw_nulls.isnull THEN out_data.nulls
                                 ELSE r.out.nulls]]

----------------------------------------------------------------------------
(* schema.rs: Attribute with its name, and Schema.  A Schema is the         *)
(* sequence of its attributes; a position counts from 0.                    *)

NamedAttribute(name, nullable, dtype) ==
    [name |-> name, nullable |-> nullable, dtype |-> dtype]

Attribute_rename(attr, name) == [attr EXCEPT !.name = name]

NoSchema == <<>>

SchemaOk(attrs) == [ok |-> TRUE, err |-> "None", name |-> "", schema |-> attrs]

SchemaErr(err, name) == [ok |-> FALSE, err |-> err, name |-> name, schema |-> NoSchema]

\* the duplicate test of Schema::from_slice: names collects the names seen so far
RECURSIVE from_slice_names(_, _, _)
from_slice_names(attrs, i, names) ==
    IF i > Len(attrs) THEN SchemaOk(attrs)
    ELSE IF attrs[i].name \in names THEN SchemaErr("AttributeDuplicate", attrs[i].name)
    ELSE from_slice_names(attrs, i + 1, names \cup {attrs[i].name})

\* a duplicate test on whole attributes: two attributes of one name and
\* different types pass it
Schema_from_slice_whole_attr(attrs) ==
    IF \E i, j \in 1..Len(attrs) : i < j /\ attrs[i] = attrs[j]
    THEN SchemaErr("AttributeDuplicate",
                   attrs[CHOOSE j \in 1..Len(attrs) : \E i \in 1..(j - 1) : attrs[i] = attrs[j]].name)
    ELSE SchemaOk(attrs)

Schema_from_slice(attrs) == from_slice_names(attrs, 1, {})

Schema_from_vec(attrs) == Schema_from_slice(attrs)

Schema_count(s) == Len(s)

\* the position of the first attribute of that name
RECURSIVE exists_from(_, _, _)
exists_from(s, name, pos) ==
    IF pos >= Len(s) THEN [some |-> FALSE, pos |-> 0]
    ELSE IF s[pos + 1].name = name THEN [some |-> TRUE, pos |-> pos]
    ELSE exists_from(s, name, pos + 1)

Schema_exists(s, name) == exists_from(s, name, 0)

NoAttribute == NamedAttribute("", FALSE, "UINT32")

LookupOk(pos, attr) == [ok |-> TRUE, err |-> "None", pos |-> pos, attr |-> attr]

LookupErr(err) == [ok |-> FALSE, err |-> err, pos |-> 0, attr |-> NoAttribute]

Schema_exists_ok(s, name) ==
    IF Schema_exists(s, name).some
    THEN LookupOk(Schema_exists(s, name).pos, NoAttribute)
    ELSE LookupErr("AttributeMissing")

Schema_get(s, pos) ==
    IF pos >= Len(s) THEN LookupErr("AttributeMissing")
    ELSE LookupOk(pos, s[pos + 1])

Schema_find(s, name) ==
    IF Schema_exists(s, name).some
    THEN LookupOk(Schema_exists(s, name).pos, s[Schema_exists(s, name).pos + 1])
    ELSE LookupErr("AttributeMissing")

----------------------------------------------------------------------------
(* projector.rs: a projector names its source columns (one position, one   *)
(* name, or all of them) and how the output attribute is named.            *)

\* Projector(Source, As): the source is POS(pos), NAME(name) or ALL, the
\* output name ORIG, PREFIX(name) or NEW(name)
Projector(source, pos, name, as, as_name) ==
    [source |-> [kind |-> source, pos |-> pos, name |-> name],
     as |-> [kind |-> as, name |-> as_name]]

project_all_attributes == <<Projector("ALL", 0, "", "ORIG", "")>>
project_by_position(pos) == <<Projector("POS", pos, "", "ORIG", "")>>
project_by_name(name) == <<Projector("NAME", 0, name, "ORIG", "")>>

BoundAttribute(pos, attr) == [input |-> 0, pos |-> pos, attr |-> attr]

BoundOk(bound) == [ok |-> TRUE, err |-> "None", bound |-> bound]

BoundErr(err) == [ok |-> FALSE, err |-> err, bound |-> <<>>]

\* naming that puts the prefix behind the name
mk_bound_attr_suffix(input, pos, out) ==
    IF ~Schema_get(input, pos).ok THEN BoundErr(Schema_get(input, pos).err)
    ELSE LET attr == Schema_get(input, pos).attr IN
         BoundOk(<<BoundAttribute(pos,
             CASE out.kind = "ORIG" -> attr
               [] out.kind = "PREFIX" -> Attribute_rename(attr, attr.name \o out.name)
               [] out.kind = "NEW" -> Attribute_rename(attr, out.name))>>)

mk_bound_attr(input, pos, out) ==
    IF ~Schema_get(input, pos).ok THEN BoundErr(Schema_get(input, pos).err)
    ELSE LET attr == Schema_get(input, pos).attr IN
         BoundOk(<<BoundAttribute(pos,
             CASE out.kind = "ORIG" -> attr
               [] out.kind = "PREFIX" -> Attribute_rename(attr, out.name \o attr.name)
               [] out.kind = "NEW" -> Attribute_rename(attr, out.name))>>)

\* Source::ALL: one bound attribute per input position, from pos on
RECURSIVE bind_all(_, _, _, _)
bind_all(input, out, pos, bound) ==
    IF pos >= Schema_count(input) THEN BoundOk(bound)
    ELSE IF ~mk_bound_attr(input, pos, out).ok THEN mk_bound_attr(input, pos, out)
    ELSE bind_all(input, out, pos + 1, bound \o mk_bound_attr(input, pos, out).bound)

bind_projector(input, p) ==
    CASE p.source.kind = "POS" -> mk_bound_attr(input, p.source.pos, p.as)
      [] p.source.kind = "NAME" ->
            IF ~Schema_exists_ok(input, p.source.name).ok
            THEN BoundErr(Schema_exists_ok(input, p.source.name).err)
            ELSE mk_bound_attr(input, Schema_exists_ok(input, p.source.name).pos, p.as)
      [] p.source.kind = "ALL" -> bind_all(input, p.as, 0, <<>>)

\* the loop of SingleSourceProjector::bind: the first failing projector ends it
RECURSIVE bind_projectors(_, _, _, _)
bind_projectors(projectors, input, i, bound) ==
    IF i > Len(projectors) THEN BoundOk(bound)
    ELSE IF ~bind_projector(input, projectors[i]).ok THEN bind_projector(input, projectors[i])
    ELSE bind_projectors(projectors, input, i + 1,
                         bound \o bind_projector(input, projectors[i]).bound)

BindErr(err, name) ==
    [ok |-> FALSE, err |-> err, name |-> name, schema |-> NoSchema, bound_attrs |-> <<>>]

SingleSourceProjector_bind(projectors, input) ==
    LET bound == bind_projectors(projectors, input, 1, <<>>) IN
    IF ~bound.ok THEN BindErr(bound.err, "")
    ELSE LET attrs == [i \in 1..Len(bound.bound) |-> bound.bound[i].attr]
             made == Schema_from_vec(attrs) IN
         IF ~made.ok THEN BindErr(made.err, made.name)
         ELSE [ok |-> TRUE, err |-> "None", name |-> "", schema |-> made.schema,
               bound_attrs |-> bound.bound]

\* the loop of BoundProjector::project_view over the bound attributes from
\* position i on: src.column(pos).unwrap() panics on a missing column
RECURSIVE project_columns(_, _, _, _)
project_columns(bound_attrs, src, i, out) ==
    IF i > Len(bound_attrs)
    THEN [kind |-> "Ok", err |-> "None", columns |-> out]
    ELSE IF bound_attrs[i].pos >= Len(src.columns)
    THEN [kind |-> "Panic", err |-> "None", columns |-> <<>>]
    ELSE LET r == alias_column(src.columns[bound_attrs[i].pos + 1], NoRange)
         IN IF r.kind # "Ok"
            THEN [kind |-> r.kind, err |-> r.err, columns |-> <<>>]
            ELSE project_columns(bound_attrs, src, i + 1, Append(out, r.alias))

\* BoundProjector::project_view(src): the view is given the schema of src
BoundProjector_project_view(bp, src) ==
    LET r == project_columns(bp.bound_attrs, src, 1, <<>>)
    IN IF r.kind # "Ok"
       THEN [kind |-> r.kind, err |-> r.err, view |-> NoView]
       ELSE [kind |-> "Ok", err |-> "None",
             view |-> [schema |-> src.schema, columns |-> r.columns, rows |-> src.rows]]

----------------------------------------------------------------------------
(* operation: ScanView and Project with their cursors.  A cursor returns  *)
(* a CursorChunk: Next with a view, or End.                               *)

\* ScanView::bind: the cursor over window_alias(src, range), at offset 0
ScanView_bind(src, range) ==
    LET r == window_alias(src, range)
    IN [kind |-> r.kind, err |-> r.err,
        cursor |-> [bound |-> r.kind = "Ok", src |-> r.view, offset |-> 0]]

\* ScanViewCursor::next(rows)
ScanViewCursor_next(cur, nrows) ==
    LET left == cur.src.rows - cur.offset
        range == SomeRange(cur.offset, Min(left, nrows))
        r == window_alias(cur.src, range)
    IN IF left = 0
       THEN [kind |-> "Ok", err |-> "None", chunk |-> "End", view |-> NoView, cursor |-> cur]
       ELSE IF r.kind # "Ok"
       THEN [kind |-> r.kind, err |-> r.err, chunk |-> "None", view |-> NoView, cursor |-> cur]
       ELSE [kind |-> "Ok", err |-> "None", chunk |-> "Next", view |-> r.view,
             cursor |-> [cur EXCEPT !.offset = @ + range.rows]]

\* ProjectCursor::next(rows) over a ScanViewCursor: a Next chunk of the
\* input is projected, an End is passed on
ProjectCursor_next(cur, bp, nrows) ==
    LET n == ScanViewCursor_next(cur, nrows)
        v == BoundProjector_project_view(bp, n.view)
    IN IF n.kind = "Ok" /\ n.chunk = "Next"
       THEN [n EXCEPT !.kind = v.kind, !.err = v.err, !.view = v.view,
                      !.chunk = IF v.kind = "Ok" THEN "Next" ELSE "None"]
       ELSE n

----------------------------------------------------------------------------
(* allocator.rs over the heap: HeapAllocator delegates to alloc::heap.     *)
(* The heap is a map from addresses to cells; a live cell is a buffer of   *)
(* `size` bytes allocated with `align`, and `bytes` stands for what the    *)
(* buffer holds.  A freed address is handed out again, lowest first.       *)
(* alloc::heap leaves the behaviour of a request for 0 bytes undefined:    *)
(* such a call returns a buffer, returns null or ends the process.         *)

Addrs == 1..MaxAddrs

NullAddr == 0

FreeCell == [live |-> FALSE, size |-> 0, align |-> 0, bytes |-> 0]

LiveCell(size, align, bytes) == [live |-> TRUE, size |-> size, align |-> align, bytes |-> bytes]

\* the address the heap hands out next, other than `not`; NullAddr: none is left
heap_free_addr(h, not) ==
    IF \E a \in Addrs : a # not /\ ~h[a].live
    THEN CHOOSE a \in Addrs : /\ a # not /\ ~h[a].live
                              /\ \A b \in Addrs : (b # not /\ ~h[b].live) => a <= b
    ELSE NullAddr

\* heap::allocate(size, align)
heap_allocate(h, size, align, outcome) ==
    LET a == heap_free_addr(h, NullAddr) IN
    IF outcome = "abort" THEN [heap |-> h, ptr |-> NullAddr, result |-> "abort"]
    ELSE IF outcome = "null" \/ a = NullAddr
    THEN [heap |-> h, ptr |-> NullAddr, result |-> "null"]
    ELSE [heap |-> [h EXCEPT ![a] = LiveCell(size, align, 0)], ptr |-> a, result |-> "ptr"]

\* heap::deallocate(ptr, size, align): the buffer must be live and have
\* been allocated or last resized with that size and alignment
heap_deallocate(h, ptr, size, align) ==
    IF ptr \in Addrs /\ h[ptr] = LiveCell(size, align, h[ptr].bytes)
    THEN [heap |-> [h EXCEPT ![ptr] = FreeCell], result |-> "ok"]
    ELSE [heap |-> h, result |-> "bad"]

\* heap::reallocate_inplace(ptr, old_size, size, align): the usable size of
\* the buffer after the call, the usable size of n bytes being n
heap_reallocate_inplace(h, ptr, old_size, size, align, outcome) ==
    IF outcome = "abort" THEN [heap |-> h, nlen |-> old_size, result |-> "abort"]
    ELSE IF ptr \notin Addrs \/ h[ptr] # LiveCell(old_size, align, h[ptr].bytes)
    THEN [heap |-> h, nlen |-> old_size, result |-> "bad"]
    ELSE IF outcome = "same"
    THEN [heap |-> [h EXCEPT ![ptr].size = size], nlen |-> size, result |-> "ok"]
    ELSE [heap |-> h, nlen |-> old_size, result |-> "ok"]

\* heap::reallocate(ptr, old_size, size, align): the buffer resized where it
\* is, or moved with its contents to a new address, or null and the buffer
\* as it was
heap_reallocate(h, ptr, old_size, size, align, outcome) ==
    LET a == heap_free_addr(h, ptr) IN
    IF outcome = "abort" THEN [heap |-> h, ptr |-> NullAddr, result |-> "abort"]
    ELSE IF ptr \notin Addrs \/ h[ptr] # LiveCell(old_size, align, h[ptr].bytes)
    THEN [heap |-> h, ptr |-> NullAddr, result |-> "bad"]
    ELSE IF outcome = "same"
    THEN [heap |-> [h EXCEPT ![ptr].size = size], ptr |-> ptr, result |-> "ptr"]
    ELSE IF outcome = "null" \/ a = NullAddr
    THEN [heap |-> h, ptr |-> NullAddr, result |-> "null"]
    ELSE [heap |-> [h EXCEPT ![a] = LiveCell(size, align, h[ptr].bytes), ![ptr] = FreeCell],
          ptr |-> a, result |-> "ptr"]

\* an OwnedChunk over the heap: parent, data (Some: ptr and len) and align
HeapChunk(parent, some, ptr, len, align) ==
    [parent |-> parent, some |-> some, ptr |-> ptr, len |-> len, align |-> align]

\* OwnedChunk::empty()
HeapChunk_empty == HeapChunk(FALSE, FALSE, NullAddr, 0, MIN_ALIGN)

\* HeapAllocator::allocate_aligned(size, align)
HeapAllocator_allocate_aligned(h, size, align, outcome) ==
    LET r == heap_allocate(h, size, align, outcome) IN
    IF r.result = "ptr"
    THEN [heap |-> r.heap, status |-> "None", result |-> r.result,
          chunk |-> HeapChunk(TRUE, TRUE, r.ptr, size, align)]
    ELSE [heap |-> r.heap, status |-> "Memory", result |-> r.result, chunk |-> HeapChunk_empty]

\* HeapAllocator::putback_raw(ptr, size, align)
HeapAllocator_putback_raw(h, ptr, size, align) == heap_deallocate(h, ptr, size, align)

\* HeapAllocator::putback(c)
HeapAllocator_putback(h, c) ==
    IF c.some THEN HeapAllocator_putback_raw(h, c.ptr, c.len, c.align)
    ELSE [heap |-> h, result |-> "none"]

\* Drop for OwnedChunk: the parent is taken, so a second drop releases nothing
OwnedChunk_drop(h, c) ==
    IF c.parent
    THEN [heap |-> HeapAllocator_putback(h, c).heap,
          result |-> HeapAllocator_putback(h, c).result,
          chunk |-> [c EXCEPT !.parent = FALSE]]
    ELSE [heap |-> h, result |-> "none", chunk |-> c]

\* HeapAllocator::resize, up to the test of nlen: heap::reallocate_inplace
HeapAllocator_resize_inplace(h, prev, size, outcome) ==
    LET r == heap_reallocate_inplace(h, prev.ptr, prev.len, size, prev.align, outcome) IN
    IF r.result = "ok" /\ r.nlen = size
    THEN [heap |-> r.heap, done |-> TRUE, status |-> "None", result |-> r.result,
          chunk |-> [prev EXCEPT !.len = size]]
    ELSE [heap |-> r.heap, done |-> r.result # "ok", status |-> "None", result |-> r.result,
          chunk |-> prev]

\* a resize that gives up the chunk when the heap has no room
HeapAllocator_resize_move_losing(h, prev, size, outcome) ==
    LET r == heap_reallocate(h, prev.ptr, prev.len, size, prev.align, outcome) IN
    IF r.result = "ptr"
    THEN [heap |-> r.heap, status |-> "None", result |-> r.result,
          chunk |-> [prev EXCEPT !.ptr = r.ptr, !.len = size]]
    ELSE [heap |-> r.heap, status |-> "Memory", result |-> r.result,
          chunk |-> [prev EXCEPT !.some = FALSE, !.ptr = NullAddr, !.len = 0]]

\* a resize that keeps the address the buffer had before it was moved
HeapAllocator_resize_move_stale(h, prev, size, outcome) ==
    LET r == heap_reallocate(h, prev.ptr, prev.len, size, prev.align, outcome) IN
    IF r.result = "ptr"
    THEN [heap |-> r.heap, status |-> "None", result |-> r.result,
          chunk |-> [prev EXCEPT !.len = size]]
    ELSE [heap |-> r.heap, status |-> "Memory", result |-> r.result, chunk |-> prev]

\* HeapAllocator::resize, after nlen != size: heap::reallocate
HeapAllocator_resize_move(h, prev, size, outcome) ==
    LET r == heap_reallocate(h, prev.ptr, prev.len, size, prev.align, outcome) IN
    IF r.result = "ptr"
    THEN [heap |-> r.heap, status |-> "None", result |-> r.result,
          chunk |-> [prev EXCEPT !.ptr = r.ptr, !.len = size]]
    ELSE [heap |-> r.heap, status |-> "Memory", result |-> r.result, chunk |-> prev]

\* make_arena with the OwnedChunk dropped at the end of the closure
make_arena_dropping(h, size, outcome) ==
    LET r == HeapAllocator_allocate_aligned(h, size, MIN_ALIGN, outcome) IN
    IF r.status = "None"
    THEN [heap |-> OwnedChunk_drop(r.heap, r.chunk).heap, status |-> "None",
          result |-> r.result, out |-> [ptr |-> r.chunk.ptr, len |-> r.chunk.len]]
    ELSE [heap |-> r.heap, status |-> r.status, result |-> r.result,
          out |-> [ptr |-> NullAddr, len |-> 0]]

\* make_arena: the slice is taken out of the OwnedChunk, which is forgotten
make_arena(h, size, outcome) ==
    LET r == HeapAllocator_allocate_aligned(h, size, MIN_ALIGN, outcome) IN
    IF r.status = "None"
    THEN [heap |-> r.heap, status |-> "None", result |-> r.result,
          out |-> [ptr |-> r.chunk.ptr, len |-> r.chunk.len]]
    ELSE [heap |-> r.heap, status |-> r.status, result |-> r.result,
          out |-> [ptr |-> NullAddr, len |-> 0]]

\* Drop for ChainedArena: putback_raw of every chunk from position i on, with
\* MIN_ALIGN; `bad` tells whether a release was not of a live buffer
RECURSIVE ChainedArena_drop(_, _, _, _)
ChainedArena_drop(h, arenas, i, bad) ==
    IF i > Len(arenas) THEN [heap |-> h, result |-> IF bad THEN "bad" ELSE "ok"]
    ELSE LET r == HeapAllocator_putback_raw(h, arenas[i].ptr, arenas[i].len, MIN_ALIGN) IN
         ChainedArena_drop(r.heap, arenas, i + 1, bad \/ r.result = "bad")

----------------------------------------------------------------------------
(* The inputs of the calls *)

\* the row counts passed to add_rows and the capacities passed to set_capacity
RowCounts == {0, 1, ROW_INCREMENT - 1, ROW_INCREMENT}

Capacities == {0, 1, ROW_INCREMENT + 1}

\* Column::set_capacity calls the allocator once for the values and once more
\* for the null bitmap of a nullable column
RECURSIVE AllocatorCalls(_)
AllocatorCalls(cols) ==
    IF cols = <<>> THEN 0
    ELSE (IF Head(cols).attr.nullable THEN 2 ELSE 1) + AllocatorCalls(Tail(cols))

\* the allocator call that fails in an operation: 0 when none does
FailPoints == 0..AllocatorCalls(columns)

Block == [columns |-> columns, rows |-> rows, capacity |-> capacity]

\* the values appended: n copies of one byte
Values == {[i \in 1..n |-> b] : n \in 0..MaxValueLen, b \in {1, 2}}

NoCall == [op |-> "new", arg |-> 0, ok |-> TRUE, rowid |-> 0, err |-> "None",
           pre_rows |-> 0, pre_capacity |-> 0]

NoArenaCall == [op |-> "new", size |-> 0, ok |-> TRUE, err |-> "None", ptr |-> NullPtr,
                index |-> 0, overrun |-> FALSE, pre |-> ChainedArena_new(0, 0)]

NoViewCall == [op |-> "none", pos |-> 0, range |-> NoRange, kind |-> "Ok", err |-> "None",
               alias |-> NoAlias, view |-> NoView]

ViewIdle == vlast = NoViewCall

NoData == [values |-> <<>>, nulls |-> <<>>]

NoTableCall == [op |-> "new", col |-> 0, row |-> 0, type |-> "None", kind |-> "Ok",
                err |-> "None",
                nvalues |-> 0, nnulls |-> 0, moved |-> FALSE]

TableIdle ==
    /\ garbage = 0
    /\ cells = NoData
    /\ written = NoData
    /\ tlast = NoTableCall

NoSchemaCall == [op |-> "none", attrs |-> <<>>, pos |-> 0, name |-> "",
                 made |-> SchemaOk(NoSchema), found |-> LookupErr("None"),
                 bound |-> BindErr("None", "")]

SchemaIdle ==
    /\ in_schema = NoSchema
    /\ builder = <<>>
    /\ slast = NoSchemaCall

NoHeapCall == [op |-> "none", caller |-> 0, size |-> 0, align |-> 0, status |-> "None",
               result |-> "none", pre |-> HeapChunk_empty]

HeapIdle ==
    /\ heap = [a \in {} |-> FreeCell]
    /\ owned = <<>>
    /\ pc = <<>>
    /\ want = <<>>
    /\ achunks = <<>>
    /\ adropped = FALSE
    /\ hlast = NoHeapCall

NoAppender == [row |-> 0, col |-> 0, error |-> "None"]

\* the chain of an appender: the capacity Table::new was given, the rows of
\* the table when the appender was made, the add_row calls since then, the
\* set / set_null calls since the last add_row and the row it returned,
\* whether no error has been recorded, the first error since the last done()
\* and the calls made while an error was recorded
NoChain == [op |-> "none", calls |-> 0, cap |-> [some |-> FALSE, rows |-> 0],
            rows0 |-> 0, adds |-> 0, sets |-> 0, row_added |-> 0, clean |-> TRUE,
            first |-> "None", pre |-> NoAppender, value |-> U32(0), null |-> FALSE,
            returned |-> "None", status |-> "None", skipped |-> 0]

AppenderIdle ==
    /\ appender = NoAppender
    /\ tdata = <<>>
    /\ chain = NoChain

NoCursor == [bound |-> FALSE, src |-> NoView, offset |-> 0]

\* a cursor call: the range of the bind with the rows of its source, the
\* batch size of the next, the result, and of the next calls before it the
\* number, the Next chunks, the rows those held and whether one returned End
NoCursorCall == [op |-> "none", range |-> NoRange, source_rows |-> 0, b |-> 0,
                 kind |-> "Ok", err |-> "None", chunk |-> "None", view |-> NoView,
                 pre_offset |-> 0, calls |-> 0, nexts |-> 0, sum |-> 0, ended |-> FALSE]

CursorIdle ==
    /\ cursor = NoCursor
    /\ clast = NoCursorCall

\* a map call: its type parameters, its result and the output memory before it
NoMapCall == [op |-> "none", IT |-> "UINT32", in_nullable |-> FALSE, OT |-> "UINT32",
              out_nullable |-> FALSE, kind |-> "Ok", err |-> "None", returned |-> 0,
              output |-> NoData]

OpsIdle == AppenderIdle /\ CursorIdle /\ mlast = NoMapCall

----------------------------------------------------------------------------
(* The Block under a sequence of calls *)

BlockInit ==
    /\ schema \in SeqsUpTo(BlockAttributes, MaxCols)
    /\ columns = Block_new(schema).columns
    /\ rows = Block_new(schema).rows
    /\ capacity = Block_new(schema).capacity
    /\ calls = 0
    /\ last = NoCall

BlockIdle ==
    /\ schema = <<>>
    /\ columns = <<>>
    /\ rows = 0
    /\ capacity = 0
    /\ calls = 0
    /\ last = NoCall

\* the Block after a call, and the record of the call
CalledBlock(op, arg, b, ok, rowid, err) ==
    /\ columns' = b.columns
    /\ rows' = b.rows
    /\ capacity' = b.capacity
    /\ calls' = calls + 1
    /\ last' = [op |-> op, arg |-> arg, ok |-> ok, rowid |-> rowid, err |-> err,
                pre_rows |-> rows, pre_capacity |-> capacity]

Called(op, arg, b, ok, rowid, err) ==
    /\ CalledBlock(op, arg, b, ok, rowid, err)
    /\ UNCHANGED <<opVars, heapVars, schemaVars, schema, arenaVars, viewVars, tableVars>>

set_capacity(row_cap, failAt) ==
    /\ calls < MaxCalls
    /\ row_cap <= MaxCapacity
    /\ LET r == Block_set_capacity(Block, row_cap, failAt)
       IN Called("set_capacity", row_cap, r.block, r.status = "None", 0, r.status)

add_row(failAt) ==
    /\ calls < MaxCalls
    /\ capacity + ROW_INCREMENT <= MaxCapacity
    /\ failAt = 0 \/ ~(capacity > rows)
    /\ LET r == Block_add_row(Block, failAt)
       IN Called("add_row", 1, r.block, r.ok, r.rowid, r.err)

add_rows(n, failAt) ==
    /\ calls < MaxCalls
    /\ round_up(capacity + n, ROW_INCREMENT) <= MaxCapacity
    /\ failAt = 0 \/ ~(capacity > rows + n)
    /\ LET r == Block_add_rows(Block, n, failAt)
       IN Called("add_rows", n, r.block, r.ok, r.rowid, r.err)

Next ==
    \/ \E c \in Capacities, f \in FailPoints : set_capacity(c, f)
    \/ \E f \in FailPoints : add_row(f)
    \/ \E n \in RowCounts, f \in FailPoints : add_rows(n, f)

----------------------------------------------------------------------------
(* The ChainedArena under a sequence of calls *)

ArenaInit ==
    /\ \E mn \in 1..MaxMinSize, k \in {2, 3} : arena = ChainedArena_new(mn, k * mn)
    /\ issued = <<>>
    /\ acalls = 0
    /\ alast = NoArenaCall

ArenaIdle ==
    /\ arena = ChainedArena_new(ARENA_MIN_SIZE, ARENA_MAX_SIZE)
    /\ issued = <<>>
    /\ acalls = 0
    /\ alast = NoArenaCall

\* the allocator is asked for a chunk only when the last chunk cannot serve the size
NeedsChunk(a, size) ==
    /\ size <= a.max_size
    /\ ~(Len(a.chunks) > 0 /\ Len(a.chunks[Len(a.chunks)]) - a.pos >= size)

allocate(size, succeeds) ==
    /\ acalls < MaxArenaCalls
    /\ succeeds \/ NeedsChunk(arena, size)
    /\ LET r == ChainedArena_allocate(arena, size, succeeds) IN
       /\ arena' = r.arena
       /\ alast' = [op |-> "allocate", size |-> size, ok |-> r.ok, err |-> r.err,
                    ptr |-> r.ptr, index |-> 0, overrun |-> FALSE, pre |-> arena]
    /\ acalls' = acalls + 1
    /\ UNCHANGED <<opVars, heapVars, schemaVars, issued, blockVars, viewVars, tableVars>>

append(data, succeeds) ==
    /\ acalls < MaxArenaCalls
    /\ succeeds \/ NeedsChunk(arena, Len(data))
    /\ LET r == ChainedArena_append(arena, data, succeeds) IN
       /\ arena' = r.arena
       /\ alast' = [op |-> "append", size |-> Len(data), ok |-> r.ok, err |-> r.err,
                    ptr |-> r.ptr, index |-> r.index, overrun |-> r.overrun, pre |-> arena]
       /\ issued' = IF r.ok THEN Append(issued, [ptr |-> r.ptr, data |-> data]) ELSE issued
    /\ acalls' = acalls + 1
    /\ UNCHANGED <<opVars, heapVars, schemaVars, blockVars, viewVars, tableVars>>

ArenaNext ==
    \/ \E size \in 0..MaxValueLen, s \in BOOLEAN : allocate(size, s)
    \/ \E data \in Values, s \in BOOLEAN : append(data, s)

----------------------------------------------------------------------------
(* Specifications *)

Init == BlockInit /\ ArenaIdle /\ ViewIdle /\ TableIdle /\ SchemaIdle /\ HeapIdle /\ OpsIdle

Spec == Init /\ [][Next]_vars

ArenaSpecInit == BlockIdle /\ ArenaInit /\ ViewIdle /\ TableIdle /\ SchemaIdle /\ HeapIdle /\ OpsIdle

ArenaSpec == ArenaSpecInit /\ [][ArenaNext]_vars

\* a Block that grows only through add_row / add_rows (no explicit set_capacity)
GrowNext ==
    \/ \E f \in FailPoints : add_row(f)
    \/ \E n \in RowCounts, f \in FailPoints : add_rows(n, f)

GrowSpec == Init /\ [][GrowNext]_vars

----------------------------------------------------------------------------
(* Aliasing the columns of a Block.  The block is sized by one             *)
(* set_capacity call, which may fail part-way, and filled by add_row /     *)
(* add_rows calls that fit its capacity.                                   *)

ViewSchemas ==
    {<<Attribute("BOOLEAN", FALSE)>>, <<Attribute("UINT32", TRUE)>>,
     <<Attribute("UINT32", TRUE), Attribute("BOOLEAN", FALSE)>>}

\* the offsets and row counts of the ranges: up to one past the largest capacity
RangeRows == 0..(MaxViewCap + 1)

Ranges == {NoRange} \cup {SomeRange(o, n) : o \in RangeRows, n \in RangeRows}

ViewInit ==
    /\ schema \in ViewSchemas
    /\ columns = Block_new(schema).columns
    /\ rows = Block_new(schema).rows
    /\ capacity = Block_new(schema).capacity
    /\ calls = 0
    /\ last = NoCall
    /\ ArenaIdle
    /\ ViewIdle
    /\ SchemaIdle /\ HeapIdle /\ OpsIdle
    /\ TableIdle

\* alias_column(block.column(pos), range)
call_alias_column(pos, range) ==
    /\ pos < Len(columns)
    /\ LET r == alias_column(Column_as_ref(columns[pos + 1]), range)
       IN vlast' = [op |-> "alias_column", pos |-> pos, range |-> range,
                    kind |-> r.kind, err |-> r.err, alias |-> r.alias, view |-> NoView]
    /\ UNCHANGED <<opVars, heapVars, schemaVars, blockVars, arenaVars, tableVars>>

\* window_alias(block, range)
call_window_alias(range) ==
    /\ LET r == window_alias(Block_as_view(schema, Block), range)
       IN vlast' = [op |-> "window_alias", pos |-> 0, range |-> range,
                    kind |-> r.kind, err |-> r.err, alias |-> NoAlias, view |-> r.view]
    /\ UNCHANGED <<opVars, heapVars, schemaVars, blockVars, arenaVars, tableVars>>

\* the block is built first and aliased afterwards: an alias borrows its source
ViewNext ==
    \/ \E c \in 0..MaxViewCap, f \in FailPoints :
          vlast = NoViewCall /\ last.op = "new" /\ set_capacity(c, f)
    \/ vlast = NoViewCall /\ capacity > rows /\ add_row(0)
    \/ \E n \in 1..MaxViewCap : vlast = NoViewCall /\ capacity > rows + n /\ add_rows(n, 0)
    \/ \E pos \in 0..(MaxCols - 1), range \in Ranges : call_alias_column(pos, range)
    \/ \E range \in Ranges : call_window_alias(range)

ViewSpec == ViewInit /\ [][ViewNext]_vars

----------------------------------------------------------------------------
(* A Table of one column, its memory and its arena.  The block is sized    *)
(* through block_ref_mut().set_capacity and filled by add_row calls that   *)
(* fit its capacity; values are stored with Table::set and                 *)
(* Table::set_null and read with the typed accessors.                      *)

\* the column positions a call names: the table's one column and the one after it
TableCols == {0, 1}

SetValues == {U32(7), Str(<<1, 1>>), Str(<<2>>)}

Unwritten == [set |-> FALSE, value |-> 0, bytes |-> <<>>]

TableInit ==
    /\ schema \in {<<a>> : a \in BlockAttributes}
    /\ columns = Block_new(schema).columns
    /\ rows = Block_new(schema).rows
    /\ capacity = Block_new(schema).capacity
    /\ calls = 0
    /\ last = NoCall
    /\ ArenaIdle
    /\ ViewIdle
    /\ SchemaIdle /\ HeapIdle /\ OpsIdle
    /\ garbage \in {0, 1}
    /\ cells = NoData
    /\ written = NoData
    /\ tlast = NoTableCall

\* block_ref_mut().set_capacity(row_cap)
table_set_capacity(row_cap, failAt, inplace) ==
    /\ calls < MaxCalls
    /\ LET r == Block_set_capacity(Block, row_cap, failAt)
           old == columns[1]
           new == r.block.columns[1]
       IN /\ CalledBlock("set_capacity", row_cap, r.block, r.status = "None", 0, r.status)
          /\ cells' = Column_data(old, new, cells, row_cap, garbage, inplace)
          /\ written' = [values |-> chunk_data(old.raw, new.raw, written.values,
                                               row_cap, Unwritten, TRUE),
                         nulls |-> chunk_data(old.raw_nulls, new.raw_nulls, written.nulls,
                                              row_cap, Unwritten, TRUE)]
          /\ tlast' = [NoTableCall EXCEPT !.op = "set_capacity", !.row = row_cap,
                                          !.kind = IF r.status = "None" THEN "Ok" ELSE "Err",
                                          !.err = r.status,
                                          !.moved = ~old.raw.isnull /\ new # old /\ ~inplace]
    /\ UNCHANGED <<opVars, heapVars, schemaVars, schema, arenaVars, viewVars, garbage>>

\* Table::add_row, when the capacity has room for the row
table_add_row ==
    /\ calls < MaxCalls
    /\ capacity > rows
    /\ LET r == Block_add_row(Block, 0)
       IN CalledBlock("add_row", 1, r.block, r.ok, r.rowid, r.err)
    /\ tlast' = [NoTableCall EXCEPT !.op = "add_row"]
    /\ UNCHANGED <<opVars, heapVars, schemaVars, schema, arenaVars, viewVars, garbage, cells, written>>

\* Table::set(col, row, value), also reached through TableAppender::set
table_set(col, row, value, succeeds) ==
    /\ value.type = "str" => acalls < MaxArenaCalls
    /\ succeeds \/ ( /\ value.type = "str" /\ row < rows /\ col < Len(columns)
                     /\ NeedsChunk(arena, Len(value.bytes)) )
    /\ LET r == Table_set(Block, cells, arena, col, row, value, succeeds)
       IN /\ cells' = r.data
          /\ arena' = r.arena
          /\ acalls' = IF value.type = "str" /\ row < rows /\ col < Len(columns)
                       THEN acalls + 1 ELSE acalls
          /\ written' = IF r.kind = "Ok"
                        THEN [written EXCEPT !.values[row + 1] =
                                 [set |-> TRUE, value |-> r.stored, bytes |-> value.bytes]]
                        ELSE written
          /\ tlast' = [NoTableCall EXCEPT !.op = "set", !.col = col, !.row = row,
                                          !.type = value.type,
                                          !.kind = r.kind, !.err = r.err]
    /\ UNCHANGED <<opVars, heapVars, schemaVars, blockVars, issued, alast, viewVars, garbage>>

\* Table::set_null(col, row, value), also reached through TableAppender::set_null
table_set_null(col, row, value) ==
    /\ LET r == Table_set_null(Block, cells, col, row, value)
       IN /\ cells' = r.data
          /\ written' = IF r.kind = "Ok"
                        THEN [written EXCEPT !.nulls[row + 1] =
                                 [set |-> TRUE, value |-> IF value THEN 1 ELSE 0,
                                  bytes |-> <<>>]]
                        ELSE written
          /\ tlast' = [NoTableCall EXCEPT !.op = "set_null", !.col = col, !.row = row,
                                          !.kind = r.kind, !.err = r.err]
    /\ UNCHANGED <<opVars, heapVars, schemaVars, blockVars, arenaVars, viewVars, garbage>>

\* one of the accessors of column 0, with type parameter T
Access(fn, T) ==
    IF fn = "nulls_mut" THEN Column_nulls_mut(columns[1], cells)
    ELSE IF fn = "rows_mut" THEN Column_rows_mut(columns[1], cells, T)
    ELSE IF fn = "row_data_mut" THEN Column_row_data_mut(columns[1], cells, T)
    ELSE column_row_data(columns[1], cells, T, garbage)

table_access(fn, T) ==
    /\ LET r == Access(fn, T)
       IN tlast' = [NoTableCall EXCEPT !.op = fn, !.type = T, !.kind = r.kind, !.err = r.err,
                                       !.nvalues = Len(r.values), !.nnulls = Len(r.nulls)]
    /\ UNCHANGED <<opVars, heapVars, schemaVars, blockVars, arenaVars, viewVars, garbage, cells, written>>

\* the resizes succeed; a text is stored in a TEXT column only
TableNext ==
    \/ \E c \in 0..MaxTableCap, inplace \in BOOLEAN : table_set_capacity(c, 0, inplace)
    \/ table_add_row
    \/ \E row \in 0..MaxTableCap, value \in SetValues, s \in BOOLEAN :
          /\ value.type = "str" => schema[1].dtype = "TEXT"
          /\ table_set(0, row, value, s)
    \/ \E row \in 0..MaxTableCap, value \in BOOLEAN : table_set_null(0, row, value)

TableSpec == TableInit /\ [][TableNext]_vars

\* the setters on every row and on the column after the last one; the
\* resizes succeed in place and the arena takes every text
RangeNext ==
    \/ \E c \in 0..MaxTableCap : table_set_capacity(c, 0, TRUE)
    \/ table_add_row
    \/ \E col \in TableCols, row \in 0..MaxTableCap, value \in {U32(7), Str(<<2>>)} :
          /\ value.type = "str" => schema[1].dtype = "TEXT"
          /\ table_set(col, row, value, TRUE)
    \/ \E col \in TableCols, row \in 0..MaxTableCap : table_set_null(col, row, TRUE)

RangeSpec == TableInit /\ [][RangeNext]_vars

\* the accessors on a column of every capacity, part-failed resizes included
AccessNext ==
    \/ \E c \in 0..MaxTableCap, f \in FailPoints, inplace \in BOOLEAN :
          table_set_capacity(c, f, inplace)
    \/ \E fn \in {"nulls_mut", "rows_mut", "row_data_mut", "column_row_data"},
          T \in {"UINT32", "TEXT", "BLOB"} : table_access(fn, T)

AccessSpec == TableInit /\ [][AccessNext]_vars

----------------------------------------------------------------------------
(* A Schema and a projector over it.  The schema is built by one           *)
(* from_slice call and looked up by position and by name; a projector is   *)
(* put together by the builder calls and then bound to the schema.         *)

AttributeNames == {"a", "b"}

NamedAttributes ==
    {NamedAttribute(n, FALSE, "UINT32") : n \in AttributeNames}
        \cup {NamedAttribute(n, TRUE, "TEXT") : n \in AttributeNames}

LookupNames == {"a", "c"}

Projections ==
    {project_by_position(pos) : pos \in 0..(MaxSchemaLen - 1)}
        \cup {project_by_name("b"), project_all_attributes}

\* Schema::from_slice(attrs)
schema_from_slice(attrs) ==
    /\ slast.op = "none"
    /\ in_schema' = Schema_from_slice(attrs).schema
    /\ slast' = [NoSchemaCall EXCEPT !.op = "from_slice", !.attrs = attrs,
                                     !.made = Schema_from_slice(attrs)]
    /\ UNCHANGED <<opVars, heapVars, builder, blockVars, arenaVars, viewVars, tableVars>>

Lookup(op) ==
    /\ builder = <<>>
    /\ slast.op \in {"none", "from_slice", "get", "exists_ok", "find"}
    /\ slast'.op = op
    /\ UNCHANGED <<opVars, heapVars, in_schema, builder, blockVars, arenaVars, viewVars, tableVars>>

\* schema.get(pos)
schema_get(pos) ==
    /\ slast' = [NoSchemaCall EXCEPT !.op = "get", !.pos = pos,
                                     !.found = Schema_get(in_schema, pos)]
    /\ Lookup("get")

\* schema.exists_ok(name)
schema_exists_ok(name) ==
    /\ slast' = [NoSchemaCall EXCEPT !.op = "exists_ok", !.name = name,
                                     !.found = Schema_exists_ok(in_schema, name)]
    /\ Lookup("exists_ok")

\* schema.find(name)
schema_find(name) ==
    /\ slast' = [NoSchemaCall EXCEPT !.op = "find", !.name = name,
                                     !.found = Schema_find(in_schema, name)]
    /\ Lookup("find")

Build(list) ==
    /\ slast.op # "bind"
    /\ Len(list) <= MaxProjs
    /\ builder' = list
    /\ slast' = [NoSchemaCall EXCEPT !.op = "add"]
    /\ UNCHANGED <<opVars, heapVars, in_schema, blockVars, arenaVars, viewVars, tableVars>>

\* builder.add(proj)
builder_add(proj) == Build(builder \o proj)

\* builder.add_as(proj, name)
builder_add_as(proj, name) ==
    Build(builder \o [i \in 1..Len(proj) |->
                         [proj[i] EXCEPT !.as = [kind |-> "NEW", name |-> name]]])

\* builder.add_prefixed(proj, prefix)
builder_add_prefixed(proj, prefix) ==
    Build(builder \o [i \in 1..Len(proj) |->
                         [proj[i] EXCEPT !.as = [kind |-> "PREFIX", name |-> prefix]]])

\* builder.done().bind(&input)
bind ==
    /\ slast.op # "bind"
    /\ slast' = [NoSchemaCall EXCEPT !.op = "bind",
                                     !.bound = SingleSourceProjector_bind(builder, in_schema)]
    /\ UNCHANGED <<opVars, heapVars, in_schema, builder, blockVars, arenaVars, viewVars, tableVars>>

SchemaNext ==
    \/ \E attrs \in SeqsUpTo(NamedAttributes, MaxSchemaLen) : schema_from_slice(attrs)
    \/ \E pos \in 0..MaxSchemaLen : schema_get(pos)
    \/ \E name \in LookupNames : schema_exists_ok(name)
    \/ \E name \in LookupNames : schema_find(name)
    \/ \E proj \in Projections : builder_add(proj)
    \/ \E proj \in Projections : builder_add_as(proj, "a")
    \/ \E proj \in Projections : builder_add_prefixed(proj, "p")
    \/ bind

SchemaInit == BlockIdle /\ ArenaIdle /\ ViewIdle /\ TableIdle /\ SchemaIdle /\ HeapIdle /\ OpsIdle

SchemaSpec == SchemaInit /\ [][SchemaNext]_vars

----------------------------------------------------------------------------
(* Chunks and an arena over one shared HeapAllocator.  Each caller owns    *)
(* one OwnedChunk: the value chunk and the null chunk of a column are two  *)
(* of them, the column's arena is the third owner.  The calls of the       *)
(* owners interleave heap call by heap call; dropping every owner is the   *)
(* drop of the Block.                                                      *)

\* the callers of the shared allocator, one chunk each
Callers == {1, 2}

ChunkSizes == 0..MaxChunkSize

\* what a heap call does: a request for 0 bytes may also end the process
Outcomes(size, normal) == IF size = 0 THEN normal \cup {"abort"} ELSE normal

Running == hlast.result # "abort"

HeapCalled(op, c, size, align, status, result, pre) ==
    /\ hlast' = [op |-> op, caller |-> c, size |-> size, align |-> align, status |-> status,
                 result |-> result, pre |-> pre]
    /\ UNCHANGED <<opVars, blockVars, arenaVars, viewVars, tableVars, schemaVars>>

\* caller c: chunk = allocator.allocate_aligned(size, align), the chunk being empty
chunk_allocate(c, size, align, outcome) ==
    /\ Running
    /\ pc[c] = "idle" /\ ~owned[c].parent
    /\ LET r == HeapAllocator_allocate_aligned(heap, size, align, outcome)
       IN /\ heap' = r.heap
          /\ owned' = [owned EXCEPT ![c] = IF r.status = "None" THEN r.chunk ELSE @]
          /\ HeapCalled("allocate", c, size, align, r.status, r.result, HeapChunk_empty)
    /\ UNCHANGED <<pc, want, achunks, adropped>>

\* caller c: chunk.resize(size), up to the return of heap::reallocate_inplace
chunk_resize(c, size, outcome) ==
    /\ Running
    /\ pc[c] = "idle"
    /\ IF ~owned[c].parent
       THEN /\ HeapCalled("resize", c, size, owned[c].align, "Memory", "none", owned[c])
            /\ UNCHANGED <<heap, owned, pc, want>>
       ELSE LET r == HeapAllocator_resize_inplace(heap, owned[c], size, outcome)
            IN /\ heap' = r.heap
               /\ owned' = [owned EXCEPT ![c] = r.chunk]
               /\ pc' = [pc EXCEPT ![c] = IF r.done THEN "idle" ELSE "resizing"]
               /\ want' = [want EXCEPT ![c] = IF r.done THEN 0 ELSE size]
               /\ HeapCalled(IF r.done THEN "resize" ELSE "resize_inplace", c, size,
                             owned[c].align, r.status, r.result, owned[c])
    /\ UNCHANGED <<achunks, adropped>>

\* caller c: the rest of chunk.resize(size): heap::reallocate
chunk_reallocate(c, outcome) ==
    /\ Running
    /\ pc[c] = "resizing"
    /\ LET r == HeapAllocator_resize_move(heap, owned[c], want[c], outcome)
       IN /\ heap' = r.heap
          /\ owned' = [owned EXCEPT ![c] = r.chunk]
          /\ HeapCalled("resize", c, want[c], owned[c].align, r.status, r.result, owned[c])
    /\ pc' = [pc EXCEPT ![c] = "idle"]
    /\ want' = [want EXCEPT ![c] = 0]
    /\ UNCHANGED <<achunks, adropped>>

\* caller c writes its chunk through chunk.data
chunk_write(c) ==
    /\ Running
    /\ pc[c] = "idle" /\ owned[c].some /\ owned[c].len > 0
    /\ owned[c].ptr \in Addrs
    /\ heap[owned[c].ptr].bytes # c
    /\ heap' = [heap EXCEPT ![owned[c].ptr].bytes = c]
    /\ HeapCalled("write", c, 0, 0, "None", "none", HeapChunk_empty)
    /\ UNCHANGED <<owned, pc, want, achunks, adropped>>

\* caller c: its chunk goes out of scope
chunk_drop(c) ==
    /\ Running
    /\ pc[c] = "idle"
    /\ LET r == OwnedChunk_drop(heap, owned[c])
       IN /\ heap' = r.heap
          /\ owned' = [owned EXCEPT ![c] = r.chunk]
          /\ HeapCalled("drop", c, owned[c].len, owned[c].align, "None", r.result,
                        HeapChunk_empty)
    /\ pc' = [pc EXCEPT ![c] = "dropped"]
    /\ UNCHANGED <<want, achunks, adropped>>

\* the arena takes its next chunk: make_arena(parent, size) and chunks.push
arena_make(size, outcome) ==
    /\ Running
    /\ ~adropped /\ Len(achunks) < MaxArenaChunks
    /\ LET r == make_arena(heap, size, outcome)
       IN /\ heap' = r.heap
          /\ achunks' = IF r.status = "None" THEN Append(achunks, r.out) ELSE achunks
          /\ HeapCalled("make_arena", 0, size, MIN_ALIGN, r.status, r.result, HeapChunk_empty)
    /\ UNCHANGED <<owned, pc, want, adropped>>

\* the arena goes out of scope
arena_drop ==
    /\ Running
    /\ ~adropped
    /\ LET r == ChainedArena_drop(heap, achunks, 1, FALSE)
       IN /\ heap' = r.heap
          /\ HeapCalled("arena_drop", 0, 0, MIN_ALIGN, "None", r.result, HeapChunk_empty)
    /\ achunks' = <<>>
    /\ adropped' = TRUE
    /\ UNCHANGED <<owned, pc, want>>

\* no other caller is inside a resize: the calls of one thread
Alone(c) == \A d \in Callers : d # c => pc[d] # "resizing"

\* one Block: its chunks and its arena are called from one thread
HeapNext ==
    \/ \E c \in Callers, size \in ChunkSizes :
          \E outcome \in Outcomes(size, {"ptr", "null"}) :
             Alone(c) /\ chunk_allocate(c, size, MIN_ALIGN, outcome)
    \/ \E c \in Callers, size \in ChunkSizes :
          \E outcome \in Outcomes(size, {"same", "fail"}) :
             Alone(c) /\ chunk_resize(c, size, outcome)
    \/ \E c \in Callers :
          \E outcome \in Outcomes(want[c], {"same", "ptr", "null"}) : chunk_reallocate(c, outcome)
    \/ \E c \in Callers : Alone(c) /\ chunk_drop(c)
    \/ \E outcome \in {"ptr", "null"} : Alone(0) /\ arena_make(ARENA_MIN_SIZE, outcome)
    \/ Alone(0) /\ arena_drop

\* one chunk of every alignment and an arena, called from one thread
AlignedNext ==
    \/ \E size \in ChunkSizes, align \in {MIN_ALIGN, 8} :
          \E outcome \in Outcomes(size, {"ptr", "null"}) :
             chunk_allocate(1, size, align, outcome)
    \/ \E size \in ChunkSizes :
          \E outcome \in Outcomes(size, {"same", "fail"}) : chunk_resize(1, size, outcome)
    \/ \E outcome \in Outcomes(want[1], {"same", "ptr", "null"}) : chunk_reallocate(1, outcome)
    \/ chunk_drop(1)
    \/ \E outcome \in {"ptr", "null"} : Alone(0) /\ arena_make(ARENA_MIN_SIZE, outcome)
    \/ Alone(0) /\ arena_drop

\* independent callers: their heap calls interleave, and each writes its chunk
SharedNext ==
    \/ \E c \in Callers, size \in ChunkSizes :
          \E outcome \in Outcomes(size, {"ptr", "null"}) :
             chunk_allocate(c, size, MIN_ALIGN, outcome)
    \/ \E c \in Callers, size \in ChunkSizes :
          \E outcome \in Outcomes(size, {"same", "fail"}) : chunk_resize(c, size, outcome)
    \/ \E c \in Callers :
          \E outcome \in Outcomes(want[c], {"same", "ptr", "null"}) : chunk_reallocate(c, outcome)
    \/ \E c \in Callers : chunk_write(c)
    \/ \E c \in Callers : chunk_drop(c)

HeapInit ==
    /\ BlockIdle /\ ArenaIdle /\ ViewIdle /\ TableIdle /\ SchemaIdle /\ OpsIdle
    /\ heap = [a \in Addrs |-> FreeCell]
    /\ owned = [c \in Callers |-> HeapChunk_empty]
    /\ pc = [c \in Callers |-> "idle"]
    /\ want = [c \in Callers |-> 0]
    /\ achunks = <<>>
    /\ adropped = FALSE
    /\ hlast = NoHeapCall

HeapSpec == HeapInit /\ [][HeapNext]_vars

AlignedSpec == HeapInit /\ [][AlignedNext]_vars

SharedSpec == HeapInit /\ [][SharedNext]_vars

----------------------------------------------------------------------------
(* Aliasing with ranges from the whole machine word.  The block is as in  *)
(* ViewSpec; every chunk is shorter than a word can count.  One call is   *)
(* made on each block: a call changes nothing it could hand to the next.  *)

\* offsets and row counts from both ends of the word
WordRanges ==
    {SomeRange(o, n) : o \in {0, 1, Word \div 2, Word - Word \div 4, Word - 2, Word - 1},
                       n \in {0, 1, 2, Word \div 4, Word \div 2, Word - 1}}

\* alias_column(block.column(pos), range)
call_alias_column_usize(pos, range, checks) ==
    /\ pos < Len(columns)
    /\ \A i \in 1..Len(columns) : columns[i].raw.len < Word
    /\ LET r == alias_column_usize(Column_as_ref(columns[pos + 1]), range, checks)
       IN vlast' = [op |-> "alias_column_usize", pos |-> pos, range |-> range,
                    kind |-> r.kind, err |-> r.err, alias |-> r.alias, view |-> NoView]
    /\ UNCHANGED <<opVars, heapVars, schemaVars, blockVars, arenaVars, tableVars>>

\* window_alias(block, range)
call_window_alias_usize(range, checks) ==
    /\ \A i \in 1..Len(columns) : columns[i].raw.len < Word
    /\ LET r == window_alias_usize(Block_as_view(schema, Block), range, checks)
       IN vlast' = [op |-> "window_alias_usize", pos |-> 0, range |-> range,
                    kind |-> r.kind, err |-> r.err, alias |-> NoAlias, view |-> r.view]
    /\ UNCHANGED <<opVars, heapVars, schemaVars, blockVars, arenaVars, tableVars>>

WordNext ==
    \/ \E c \in 0..MaxViewCap, f \in FailPoints :
          vlast = NoViewCall /\ last.op = "new" /\ set_capacity(c, f)
    \/ vlast = NoViewCall /\ capacity > rows /\ add_row(0)
    \/ \E n \in 1..MaxViewCap : vlast = NoViewCall /\ capacity > rows + n /\ add_rows(n, 0)
    \/ \E pos \in 0..(MaxCols - 1), range \in WordRanges, checks \in BOOLEAN :
          vlast = NoViewCall /\ call_alias_column_usize(pos, range, checks)
    \/ \E range \in WordRanges, checks \in BOOLEAN :
          vlast = NoViewCall /\ call_window_alias_usize(range, checks)

WordSpec == ViewInit /\ [][WordNext]_vars

----------------------------------------------------------------------------
(* BoundOneColMapper::map from one column to another.  The two columns    *)
(* are sized alike; the input holds any values and null bytes, the        *)
(* output what the allocator left there.                                  *)

MaxMapRows == 2       \* rows of the columns that are mapped

\* columns[1] is the input column and columns[2] the output column, tdata
\* their memory
MapInit ==
    /\ schema \in {<<Attribute("UINT32", i), Attribute("UINT32", o)>> : i, o \in BOOLEAN}
    /\ capacity \in 0..MaxMapRows
    /\ rows = capacity
    /\ columns = [c \in 1..2 |-> Column_set_capacity(Column_new(schema[c]), capacity, 0, 0).col]
    /\ garbage \in {0, 1}
    /\ \E values \in [1..capacity -> {3, 4}], nulls \in [1..capacity -> {0, 1}] :
          tdata = <<[values |-> values,
                     nulls |-> IF schema[1].nullable THEN nulls ELSE <<>>],
                    [values |-> [r \in 1..capacity |-> garbage],
                     nulls |-> IF schema[2].nullable THEN [r \in 1..capacity |-> garbage]
                               ELSE <<>>]>>
    /\ calls = 0
    /\ last = NoCall
    /\ ArenaIdle /\ ViewIdle /\ SchemaIdle /\ HeapIdle /\ CursorIdle
    /\ appender = NoAppender
    /\ chain = NoChain
    /\ mlast = NoMapCall
    /\ cells = NoData
    /\ written = NoData
    /\ tlast = NoTableCall

\* BoundOneColMapper::<IT, IN, UInt32, ON>::new().map(&input, &mut output, &mapper)
map(IT, in_nullable, out_nullable) ==
    /\ mlast.op = "none"
    /\ LET r == BoundOneColMapper_map(columns[1], tdata[1], columns[2], tdata[2],
                                      IT, in_nullable, "UINT32", out_nullable, garbage)
       IN /\ tdata' = [tdata EXCEPT ![2] = r.data]
          /\ mlast' = [op |-> "map", IT |-> IT, in_nullable |-> in_nullable,
                       OT |-> "UINT32", out_nullable |-> out_nullable,
                       kind |-> r.kind, err |-> r.err, returned |-> r.returned,
                       output |-> tdata[2]]
    /\ UNCHANGED <<cursorVars, appender, chain, heapVars, schemaVars, blockVars, arenaVars,
                   viewVars, tableVars>>

MapNext ==
    \E IT \in {"UINT32", "TEXT"}, in_nullable \in BOOLEAN, out_nullable \in BOOLEAN :
       map(IT, in_nullable, out_nullable)

MapSpec == MapInit /\ [][MapNext]_vars

----------------------------------------------------------------------------
(* A ScanView over a Block.  The block is sized and filled first; the     *)
(* cursor is bound once and then asked for chunks, either directly or     *)
(* through a Project of one of the block's columns.                       *)

MaxNexts == 4         \* next calls on a cursor
MaxBatch == 3         \* largest batch size asked of a next call

\* the ranges given to ScanView::new: none, and ranges from the first rows
ScanRanges == {NoRange} \cup {SomeRange(o, n) : o \in 0..1, n \in 0..MaxViewCap}

\* the schemas of the block: the attributes have names, which a projector binds
ScanSchemas ==
    {<<NamedAttribute("a", FALSE, "BOOLEAN")>>, <<NamedAttribute("a", TRUE, "UINT32")>>,
     <<NamedAttribute("a", TRUE, "UINT32"), NamedAttribute("b", FALSE, "BOOLEAN")>>,
     <<NamedAttribute("a", FALSE, "UINT32"), NamedAttribute("b", TRUE, "UINT32")>>}

ScanInit ==
    /\ schema \in ScanSchemas
    /\ columns = Block_new(schema).columns
    /\ rows = Block_new(schema).rows
    /\ capacity = Block_new(schema).capacity
    /\ calls = 0
    /\ last = NoCall
    /\ ArenaIdle /\ ViewIdle /\ SchemaIdle /\ HeapIdle /\ OpsIdle /\ TableIdle

\* ScanView::new(&block, range).bind(alloc)
scan_bind(range) ==
    /\ clast.op = "none"
    /\ \E r \in {ScanView_bind(Block_as_view(schema, Block), range)} :
          /\ cursor' = r.cursor
          /\ clast' = [NoCursorCall EXCEPT !.op = "bind", !.range = range,
                                           !.source_rows = rows,
                                           !.kind = r.kind, !.err = r.err]
    /\ UNCHANGED <<appenderVars, mlast, heapVars, schemaVars, blockVars, arenaVars,
                   viewVars, tableVars>>

\* the cursor after a next call, and the record of the call
CursorCalled(op, nrows, r) ==
    /\ cursor.bound
    /\ clast.kind # "Panic"
    /\ clast.calls < MaxNexts
    /\ cursor' = r.cursor
    /\ clast' = [clast EXCEPT !.op = op, !.b = nrows, !.kind = r.kind, !.err = r.err,
                              !.chunk = r.chunk, !.view = r.view,
                              !.pre_offset = cursor.offset,
                              !.calls = @ + 1,
                              !.nexts = IF r.chunk = "Next" THEN @ + 1 ELSE @,
                              !.sum = IF r.chunk = "Next" THEN @ + r.view.rows ELSE @,
                              !.ended = @ \/ clast.chunk = "End"]

\* cursor.next(nrows) on the ScanViewCursor
cursor_next(nrows) ==
    /\ clast.op \in {"bind", "next"}
    /\ \E r \in {ScanViewCursor_next(cursor, nrows)} : CursorCalled("next", nrows, r)
    /\ UNCHANGED <<appenderVars, mlast, heapVars, schemaVars, blockVars, arenaVars,
                   viewVars, tableVars>>

\* Project::new(project_by_position(pos), scan).bind(alloc), on the cursor's
\* schema, and next(nrows) on the ProjectCursor
project_next(pos, nrows) ==
    /\ clast.op \in {"bind", "project"}
    /\ clast.op = "project" => vlast.pos = pos
    /\ \E bp \in {SingleSourceProjector_bind(project_by_position(pos), cursor.src.schema)} :
          /\ bp.ok
          /\ \E r \in {ProjectCursor_next(cursor, bp, nrows)} :
                /\ CursorCalled("project", nrows, r)
                /\ vlast' = [NoViewCall EXCEPT !.op = "project_view", !.pos = pos,
                                               !.kind = r.kind, !.err = r.err,
                                               !.view = r.view]
    /\ UNCHANGED <<appenderVars, mlast, heapVars, schemaVars, blockVars, arenaVars,
                   tableVars>>

\* the block is built first: the cursor borrows it
ScanNext ==
    \/ \E c \in 0..MaxViewCap : clast.op = "none" /\ last.op = "new" /\ set_capacity(c, 0)
    \/ clast.op = "none" /\ capacity > rows /\ add_row(0)
    \/ \E n \in 1..MaxViewCap : clast.op = "none" /\ capacity > rows + n /\ add_rows(n, 0)
    \/ \E range \in ScanRanges : scan_bind(range)
    \/ \E b \in 1..MaxBatch : cursor_next(b)
    \/ \E pos \in 0..(MaxCols - 1), b \in 1..MaxBatch : project_next(pos, b)

ScanSpec == ScanInit /\ [][ScanNext]_vars

----------------------------------------------------------------------------
(* A Table filled through TableAppender chains.  The table is made by     *)
(* Table::new; a chain is TableAppender::new followed by add_row, set and *)
(* set_null calls and ends with done(), after which another may start.    *)

MaxChain == 4         \* calls of TableAppender in a run

AppenderSchemas ==
    {<<Attribute("UINT32", TRUE)>>,
     <<Attribute("UINT32", FALSE), Attribute("UINT32", TRUE)>>,
     <<Attribute("UINT32", TRUE), Attribute("TEXT", FALSE)>>}

AppenderTable ==
    [block |-> Block, data |-> tdata, arena |-> arena]

\* Table::new(alloc, schema, capacity)
AppenderInit ==
    /\ schema \in AppenderSchemas
    /\ \E cap \in {[some |-> FALSE, rows |-> 0]}
                   \cup {[some |-> TRUE, rows |-> c] : c \in 0..MaxTableCap},
          f \in {0, 1} :
          LET t == Table_new(schema, cap, f) IN
          /\ columns = t.block.columns
          /\ rows = t.block.rows
          /\ capacity = t.block.capacity
          /\ tdata = [i \in 1..Len(schema) |-> NoData]
          /\ chain = [NoChain EXCEPT !.op = "table", !.cap = cap]
    /\ appender = NoAppender
    /\ calls = 0
    /\ last = NoCall
    /\ ArenaIdle /\ ViewIdle /\ SchemaIdle /\ HeapIdle /\ CursorIdle
    /\ mlast = NoMapCall
    /\ garbage \in {0, 1}
    /\ cells = NoData
    /\ written = NoData
    /\ tlast = NoTableCall

\* block_ref_mut().set_capacity(row_cap) on the new table, no allocation failing
size_table(row_cap) ==
    /\ chain.op = "table"
    /\ last.op = "new"
    /\ \E r \in {Block_set_capacity(Block, row_cap, 0)} :
          /\ CalledBlock("set_capacity", row_cap, r.block, r.status = "None", 0, r.status)
          /\ tdata' = [i \in 1..Len(tdata) |->
                          Column_data(columns[i], r.block.columns[i], tdata[i], row_cap,
                                      garbage, TRUE)]
    /\ UNCHANGED <<cursorVars, mlast, appender, chain, heapVars, schemaVars, schema,
                   arenaVars, viewVars, tableVars>>

\* the table and the appender after a call of the chain, and its record
Chained(op, r, value, null, returned) ==
    /\ chain.calls < MaxChain
    /\ chain.op # "panic"
    /\ columns' = r.table.block.columns
    /\ rows' = r.table.block.rows
    /\ capacity' = r.table.block.capacity
    /\ tdata' = r.table.data
    /\ arena' = r.table.arena
    /\ appender' = r.appender
    /\ chain' = [chain EXCEPT
          !.op = IF r.kind = "Panic" THEN "panic" ELSE op,
          !.calls = @ + 1,
          !.adds = IF op = "add_row" THEN @ + 1 ELSE @,
          !.sets = IF op = "add_row" THEN 0
                   ELSE IF op \in {"set", "set_null"} THEN @ + 1 ELSE @,
          !.row_added = IF op = "add_row" THEN rows ELSE @,
          !.clean = @ /\ r.appender.error = "None",
          !.first = IF op = "done" THEN "None"
                    ELSE IF @ = "None" THEN r.appender.error ELSE @,
          !.pre = appender,
          !.value = value,
          !.null = null,
          !.returned = returned,
          !.status = TableAppender_status(r.appender),
          !.skipped = IF op # "done" /\ appender.error # "None" THEN @ + 1 ELSE @]
    /\ UNCHANGED <<cursorVars, mlast, heapVars, schemaVars, schema, calls, last, issued,
                   acalls, alast, viewVars, tableVars>>

\* add_row on a table with room for the row, or growing it by ROW_INCREMENT
appender_add_row(failAt, inplace) ==
    /\ chain.op # "table"
    /\ failAt # 0 => (appender.error = "None" /\ capacity <= rows)
    /\ \E r \in {TableAppender_add_row(appender, AppenderTable, failAt, garbage, inplace)} :
          Chained("add_row", [appender |-> r.appender, table |-> r.table, kind |-> "Ok"],
                  U32(0), FALSE, "None")

\* a text goes to the arena of the TEXT column; the arena's allocator can fail
\* only when it is called
appender_set(value, succeeds) ==
    /\ (value.type = "str" /\ appender.col < Len(schema))
          => schema[appender.col + 1].dtype = "TEXT"
    /\ chain.op # "table"
    /\ succeeds \/ ( /\ value.type = "str" /\ appender.error = "None"
                     /\ appender.row < rows /\ appender.col < Len(columns)
                     /\ NeedsChunk(arena, Len(value.bytes)) )
    /\ \E r \in {TableAppender_set(appender, AppenderTable, value, succeeds)} :
          Chained("set", r, value, FALSE, "None")

appender_set_null(value) ==
    /\ chain.op # "table"
    /\ \E r \in {TableAppender_set_null(appender, AppenderTable, value)} :
          Chained("set_null", r, U32(0), value, "None")

appender_done ==
    /\ chain.op # "table"
    /\ \E r \in {TableAppender_done(appender)} :
          Chained("done", [appender |-> r.appender, table |-> AppenderTable, kind |-> "Ok"],
                  U32(0), FALSE, r.returned)

\* TableAppender::new on a table no appender borrows
appender_new ==
    /\ chain.op \in {"table", "done"}
    /\ chain.calls < MaxChain
    /\ appender' = TableAppender_new(AppenderTable)
    /\ chain' = [NoChain EXCEPT !.op = "new", !.cap = chain.cap, !.calls = chain.calls,
                                !.rows0 = rows]
    /\ UNCHANGED <<cursorVars, mlast, tdata, heapVars, schemaVars, blockVars, arenaVars,
                   viewVars, tableVars>>

\* a resize keeps the rows whether or not the chunk moves (HeapAllocator_resize),
\* so add_row is taken with an in-place resize only
AppenderNext ==
    \/ \E c \in 1..MaxTableCap : size_table(c)
    \/ \E f \in FailPoints : appender_add_row(f, TRUE)
    \/ \E value \in {U32(7), Str(<<2>>)}, s \in BOOLEAN : appender_set(value, s)
    \/ \E value \in BOOLEAN : appender_set_null(value)
    \/ appender_done
    \/ appender_new

AppenderSpec == AppenderInit /\ [][AppenderNext]_vars

----------------------------------------------------------------------------
(* Block: rows, capacity and growth *)

\* C1: rows() <= capacity() after every call of add_row, add_rows and
\* set_capacity, shrinking and failing calls included.
C1_RowsWithinCapacity == rows <= capacity

\* a set_capacity below the row count has succeeded and the rows were cut to it
C1_Witness ==
    /\ last.op = "set_capacity" /\ last.ok
    /\ last.arg < last.pre_rows
    /\ rows = last.arg

\* C2: after every Block operation, failed ones included, every column has
\* the same capacity and that capacity is Block.capacity().
C2_ColumnsShareCapacity ==
    \A i \in 1..Len(columns) : Column_capacity(columns[i]) = capacity

\* C3: a successful add_row from rows = r, capacity = c returns r and leaves
\* rows = r + 1; the capacity stays c when r < c and becomes c + 1024
\* otherwise; the first add_row on a new Block returns 0 and leaves rows = 1,
\* capacity = 1024.
C3_AddRow ==
    (last.op = "add_row" /\ last.ok) =>
        /\ last.rowid = last.pre_rows
        /\ rows = last.pre_rows + 1
        /\ capacity = IF last.pre_rows < last.pre_capacity
                      THEN last.pre_capacity
                      ELSE last.pre_capacity + 1024
        /\ calls = 1 => (last.rowid = 0 /\ rows = 1 /\ capacity = 1024)

\* add_row has grown a full Block that already held rows
C3_Witness ==
    /\ last.op = "add_row" /\ last.ok
    /\ last.pre_rows = last.pre_capacity
    /\ last.pre_rows > 0

\* C4: a successful add_rows(n) from rows = r returns r and leaves
\* rows = r + n, whether the rows fit or the Block grows.
C4_AddRowsReturnsFirstRow ==
    (last.op = "add_rows" /\ last.ok) =>
        /\ last.rowid = last.pre_rows
        /\ rows = last.pre_rows + last.arg

\* C5: after a successful add_rows(n) from rows = r, capacity = c the
\* capacity is c when r + n <= c and round_up(r + n, 1024) when r + n > c.
C5_AddRowsCapacity ==
    (last.op = "add_rows" /\ last.ok) =>
        capacity = IF last.pre_rows + last.arg <= last.pre_capacity
                   THEN last.pre_capacity
                   ELSE round_up(last.pre_rows + last.arg, 1024)

\* C6: with add_row / add_rows only, the capacity never decreases, every
\* call changes it by a multiple of 1024, and it is always a multiple of 1024.
C6_GrowsByIncrements ==
    /\ capacity % 1024 = 0
    /\ capacity >= last.pre_capacity
    /\ (capacity - last.pre_capacity) % 1024 = 0

\* add_rows has grown a Block a second time
C6_Witness ==
    /\ last.op = "add_rows" /\ last.ok
    /\ last.pre_capacity > 0
    /\ capacity > last.pre_capacity

\* C7: a call in which a column's growth fails returns that error and leaves
\* Block.capacity() and Block.rows() as they were before the call.
C7_FailureKeepsBlock ==
    ~last.ok =>
        /\ last.err = "Memory"
        /\ capacity = last.pre_capacity
        /\ rows = last.pre_rows

\* a call has failed after one of the columns had grown
C7_Witness ==
    /\ ~last.ok
    /\ \E i \in 1..Len(columns) : Column_capacity(columns[i]) > last.pre_capacity

----------------------------------------------------------------------------
(* ChainedArena *)

\* the bytes of chunk memory at [ptr, ptr + Len(data)) equal data, as far as
\* the region lies in the chunk
RegionHolds(chunks, ptr, data) ==
    \A j \in 1..Len(data) :
        ptr.off + j <= Len(chunks[ptr.chunk + 1]) =>
            chunks[ptr.chunk + 1][ptr.off + j] = data[j]

\* C8: the bytes of every region an append returned still equal the bytes
\* appended there, whatever was appended later.
C8_IssuedRegionsIntact ==
    \A i \in 1..Len(issued) : RegionHolds(arena.chunks, issued[i].ptr, issued[i].data)

\* C9: the region [ptr, ptr + size) of every successful allocate / append
\* lies inside one chunk of the arena.
C9_RegionInsideChunk ==
    (alast.op \in {"allocate", "append"} /\ alast.ok) =>
        InsideChunk(arena.chunks, alast.ptr, alast.size)

\* C10: allocate / append of a size above max_size returns MemoryLimit and
\* leaves the arena (chunk list, chunk bytes, write cursor) unchanged.
C10_OverLimitRejected ==
    (alast.op \in {"allocate", "append"} /\ alast.size > alast.pre.max_size) =>
        /\ ~alast.ok
        /\ alast.err = "MemoryLimit"
        /\ arena = alast.pre

\* an append above max_size was made on an arena that holds a chunk
C10_Witness ==
    /\ alast.op = "append"
    /\ alast.size > arena.max_size
    /\ Len(arena.chunks) > 0

\* C11: chunk 0 has length min_size and every later chunk k has length
\* min(2 x length(chunk k-1), max_size); a call never removes a chunk of the
\* list nor changes the length of one.
C11_ChunkSizes ==
    /\ \A k \in 1..Len(arena.chunks) :
          Len(arena.chunks[k]) =
              IF k = 1 THEN arena.min_size
              ELSE Min(2 * Len(arena.chunks[k - 1]), arena.max_size)
    /\ Len(arena.chunks) >= Len(alast.pre.chunks)
    /\ \A k \in 1..Len(alast.pre.chunks) :
          Len(arena.chunks[k]) = Len(alast.pre.chunks[k])

\* a chunk was added whose size is max_size, less than twice the chunk before it
C11_Witness ==
    /\ Len(arena.chunks) >= 2
    /\ Len(arena.chunks) > Len(alast.pre.chunks)
    /\ Len(arena.chunks[Len(arena.chunks)]) = arena.max_size
    /\ 2 * Len(arena.chunks[Len(arena.chunks) - 1]) > arena.max_size

\* C12: append(bytes) returns ArenaAppend(i, p) where the len(bytes) bytes at
\* p equal the input right after the call and i is the index, in the chunk
\* list, of the chunk that contains p.
C12_AppendReturnsLocation ==
    (alast.op = "append" /\ alast.ok) =>
        /\ alast.index = alast.ptr.chunk
        /\ InsideChunk(arena.chunks, alast.ptr, alast.size)
        /\ \A j \in 1..alast.size :
              arena.chunks[alast.ptr.chunk + 1][alast.ptr.off + j]
                  = issued[Len(issued)].data[j]

----------------------------------------------------------------------------
(* Column memory: resizes, value setters, null bytes, typed access *)

C14_TextReadsBack ==
    schema[1].dtype = "TEXT" =>
        \A i \in 1..Len(written.values) :
            written.values[i].set =>
                LET raw == column_row_data(columns[1], cells, "TEXT", garbage).values[i]
                IN /\ raw.size = Len(written.values[i].bytes)
                   /\ RawData_bytes(arena.chunks, raw) = written.values[i].bytes

\* C15: after Table.set stored a non-null value in row r of a nullable
\* column, the null byte of row r read through column_row_data is 0.
C15_SetClearsNull ==
    (tlast.op = "set" /\ tlast.kind = "Ok" /\ columns[1].attr.nullable) =>
        column_row_data(columns[1], cells, columns[1].attr.dtype, garbage).nulls[tlast.row + 1]
            = 0

\* C16: on a column that is not nullable, Column.nulls_mut and the accessors
\* that return nulls next to the values (Column.row_data_mut, column_row_data,
\* called with the column's type) yield an AttributeNullability error.
C16_NullsOfNonNullable ==
    ( /\ tlast.op \in {"nulls_mut", "row_data_mut", "column_row_data"}
      /\ tlast.op # "nulls_mut" => tlast.type = columns[1].attr.dtype
      /\ ~columns[1].attr.nullable )
    => (tlast.kind = "Err" /\ tlast.err = "AttributeNullability")

\* C17: rows_mut<T>, row_data_mut<T> and column_row_data<T> return an
\* AttributeType error exactly when T differs from the column's type;
\* otherwise they return a slice of capacity() values.
C17_TypedAccess ==
    tlast.op \in {"rows_mut", "row_data_mut", "column_row_data"} =>
        /\ (tlast.kind = "Err" /\ tlast.err = "AttributeType")
               <=> (tlast.type # columns[1].attr.dtype)
        /\ tlast.type = columns[1].attr.dtype =>
               (tlast.kind = "Ok" /\ tlast.nvalues = Column_capacity(columns[1]))

\* a TEXT column with rows was read as BLOB, which has the same width, and refused
C17_Witness ==
    /\ tlast.op = "rows_mut"
    /\ columns[1].attr.dtype = "TEXT"
    /\ tlast.type = "BLOB"
    /\ tlast.err = "AttributeType"
    /\ Column_capacity(columns[1]) > 0

----------------------------------------------------------------------------
(* Aliases and windows *)

\* C18: when alias_column(src, Some{offset, rows}) succeeds, the alias has
\* the source's attribute, capacity() = rows, row bytes [offset x w,
\* (offset + rows) x w) of the source and, when nullable, null bytes
\* [offset, offset + rows); with no range it covers the whole capacity.
C18_AliasCoversRange ==
    (vlast.op = "alias_column" /\ vlast.kind = "Ok") =>
        LET src == Column_as_ref(columns[vlast.pos + 1])
            w == size_of(src.attr.dtype)
            offset == IF vlast.range.some THEN vlast.range.offset ELSE 0
            nrows == IF vlast.range.some THEN vlast.range.rows ELSE RefColumn_capacity(src)
        IN /\ vlast.alias.attr = src.attr
           /\ RefColumn_capacity(vlast.alias) = nrows
           /\ vlast.alias.raw = Slice(offset * w, nrows * w)
           /\ src.attr.nullable => vlast.alias.raw_nulls = Slice(offset, nrows)

\* C19: alias_column with offset + rows > source.capacity() and window_alias
\* with offset + rows > source.rows() return RowOutOfBounds and produce no
\* aliased column and no view.
C19_OutOfBoundsRejected ==
    /\ ( /\ vlast.op = "alias_column"
         /\ vlast.range.some
         /\ vlast.range.offset + vlast.range.rows > Column_capacity(columns[vlast.pos + 1]) )
       => (vlast.kind = "Err" /\ vlast.err = "RowOutOfBounds" /\ vlast.alias = NoAlias)
    /\ ( /\ vlast.op = "window_alias"
         /\ vlast.range.some
         /\ vlast.range.offset + vlast.range.rows > rows )
       => (vlast.kind = "Err" /\ vlast.err = "RowOutOfBounds" /\ vlast.view = NoView)

\* a range that starts inside an allocated column and ends past its capacity was refused
C19_Witness ==
    /\ vlast.op = "alias_column"
    /\ vlast.range.some
    /\ vlast.range.offset < Column_capacity(columns[vlast.pos + 1])
    /\ vlast.range.offset + vlast.range.rows > Column_capacity(columns[vlast.pos + 1])
    /\ vlast.err = "RowOutOfBounds"

\* C20: alias_column returns Ok, and never aborts on a slice bound, for
\* every range with offset + rows <= source.capacity() and for the no-range
\* call, whatever the type and the nullability of the column.
C20_AliasInRangeSucceeds ==
    ( /\ vlast.op = "alias_column"
      /\ \/ ~vlast.range.some
         \/ vlast.range.offset + vlast.range.rows <= Column_capacity(columns[vlast.pos + 1]) )
    => vlast.kind = "Ok"

\* C21: window_alias(src, range) on success returns a RefView whose rows()
\* is range.rows (src.rows() with no range), whose schema is the source
\* schema, and which has one aliased column per attribute, in schema order.
C21_WindowShape ==
    (vlast.op = "window_alias" /\ vlast.kind = "Ok") =>
        /\ vlast.view.rows = IF vlast.range.some THEN vlast.range.rows ELSE rows
        /\ vlast.view.schema = schema
        /\ Len(vlast.view.columns) = Len(schema)
        /\ \A i \in 1..Len(schema) : vlast.view.columns[i].attr = schema[i]

\* a window of fewer rows than the source has was taken of a two-column block
C21_Witness ==
    /\ vlast.op = "window_alias"
    /\ vlast.kind = "Ok"
    /\ Len(schema) = 2
    /\ vlast.range.some
    /\ vlast.range.rows > 0
    /\ vlast.range.rows < rows

\* C22: on a 4-row column of a fixed-width type, the alias_column windows
\* over rows [0,2) and [2,4) both succeed, and each covers exactly the bytes
\* of its own two rows, so that the two byte ranges are disjoint.
C22_DisjointWindows ==
    ( /\ vlast.op = "alias_column"
      /\ vlast.range = SomeRange(0, 2)
      /\ Column_capacity(columns[vlast.pos + 1]) = 4 )
    => LET src == Column_as_ref(columns[vlast.pos + 1])
           w == size_of(src.attr.dtype)
           upper == alias_column(src, SomeRange(2, 2))
       IN /\ vlast.kind = "Ok"
          /\ upper.kind = "Ok"
          /\ vlast.alias.raw = Slice(0, 2 * w)
          /\ upper.alias.raw = Slice(2 * w, 2 * w)
          /\ vlast.alias.raw.start + vlast.alias.raw.len <= upper.alias.raw.start

----------------------------------------------------------------------------
(* Schema and projector *)

\* C28: Schema::from_slice / from_vec return AttributeDuplicate(name), name
\* being shared by two attributes, exactly when two attributes of the input
\* share a name, and otherwise a schema of the same attributes in the same
\* order, so a schema built by them has pairwise distinct names; get(pos)
\* with pos >= count, and exists_ok / find of a name the schema does not
\* hold, return AttributeMissing.
C28_SchemaErrors ==
    LET attrs == slast.attrs
        shared(n) == \E i, j \in 1..Len(attrs) : i # j /\ attrs[i].name = n /\ attrs[j].name = n
        unknown(n) == \A i \in 1..Len(in_schema) : in_schema[i].name # n
    IN
    /\ \A i, j \in 1..Len(in_schema) : i # j => in_schema[i].name # in_schema[j].name
    /\ slast.op = "from_slice" =>
          IF \E n \in AttributeNames : shared(n)
          THEN /\ ~slast.made.ok
               /\ slast.made.err = "AttributeDuplicate"
               /\ shared(slast.made.name)
          ELSE /\ slast.made.ok
               /\ slast.made.schema = attrs
               /\ in_schema = attrs
    /\ (slast.op = "get" /\ slast.pos >= Schema_count(in_schema)) =>
          ~slast.found.ok /\ slast.found.err = "AttributeMissing"
    /\ (slast.op \in {"exists_ok", "find"} /\ unknown(slast.name)) =>
          ~slast.found.ok /\ slast.found.err = "AttributeMissing"

\* from_slice was handed two attributes of one name and different types
C28_Witness ==
    /\ slast.op = "from_slice"
    /\ Len(slast.attrs) = 2
    /\ slast.attrs[1].name = slast.attrs[2].name
    /\ slast.attrs[1].dtype # slast.attrs[2].dtype
    /\ slast.made.err = "AttributeDuplicate"

\* C29: bind(input) fails with AttributeMissing when a projector names a
\* position or a name the input does not have, and otherwise with
\* AttributeDuplicate when two output names coincide; otherwise the output
\* schema lists, in the order the projections were added, the selected input
\* attributes (ALL: every one, in input order) with type and nullability kept
\* and the name kept, replaced (add_as) or prefixed (add_prefixed).
C29_BindOutput ==
    LET n == Len(in_schema)
        at(name) == CHOOSE q \in 0..n : q = n \/ in_schema[q + 1].name = name
        missing(p) == \/ p.source.kind = "POS" /\ p.source.pos >= n
                      \/ p.source.kind = "NAME" /\ at(p.source.name) = n
        selected(p) == CASE p.source.kind = "POS" -> <<p.source.pos>>
                         [] p.source.kind = "NAME" -> <<at(p.source.name)>>
                         [] p.source.kind = "ALL" -> [i \in 1..n |-> i - 1]
        named(p, q) == CASE p.as.kind = "ORIG" -> in_schema[q + 1].name
                         [] p.as.kind = "NEW" -> p.as.name
                         [] p.as.kind = "PREFIX" -> p.as.name \o in_schema[q + 1].name
        output(p) == [k \in 1..Len(selected(p)) |->
                         [name |-> named(p, selected(p)[k]),
                          nullable |-> in_schema[selected(p)[k] + 1].nullable,
                          dtype |-> in_schema[selected(p)[k] + 1].dtype]]
        outputs[i \in 0..Len(builder)] ==
            IF i = 0 THEN <<>> ELSE outputs[i - 1] \o output(builder[i])
        expected == outputs[Len(builder)]
        r == slast.bound
    IN
    slast.op = "bind" =>
        IF \E i \in 1..Len(builder) : missing(builder[i])
        THEN ~r.ok /\ r.err = "AttributeMissing"
        ELSE IF \E i, j \in 1..Len(expected) : i # j /\ expected[i].name = expected[j].name
        THEN ~r.ok /\ r.err = "AttributeDuplicate"
        ELSE /\ r.ok
             /\ r.schema = expected

\* a bind of two projections succeeded: one prefixed, and all the input's
\* two attributes under their own names
C29_Witness ==
    /\ slast.op = "bind"
    /\ slast.bound.ok
    /\ Len(builder) = 2
    /\ Len(slast.bound.schema) = 3
    /\ \E i \in 1..2 : builder[i].as.kind = "PREFIX"

----------------------------------------------------------------------------
(* Table: rows and columns out of range *)

----------------------------------------------------------------------------
(* The allocator over the heap: ownership, resize, alignment, sharing *)

\* C23: every buffer the chunks and the arena of a Block obtained is given
\* back exactly once: no release is of a buffer that is not live (never
\* twice), every live buffer has exactly one owner, and once the chunks and
\* the arena are dropped no buffer is live (never leaked), failed
\* allocations and resizes included.
C23_ReleasedOnce ==
    LET holds(c, a) == owned[c].parent /\ owned[c].some /\ owned[c].ptr = a
        arena_holds(i, a) == achunks[i].ptr = a
    IN
    /\ hlast.result # "bad"
    /\ \A a \in DOMAIN heap :
          heap[a].live =>
             Cardinality({c \in Callers : holds(c, a)})
               + Cardinality({i \in 1..Len(achunks) : arena_holds(i, a)}) = 1
    /\ ((\A c \in Callers : pc[c] = "dropped") /\ adropped) =>
          \A a \in DOMAIN heap : ~heap[a].live

\* the Block is dropped: both chunks held a buffer, and the drop of the
\* arena released its chunk last
C23_Witness ==
    /\ \A c \in Callers : pc[c] = "dropped" /\ owned[c].some
    /\ adropped
    /\ hlast.op = "arena_drop" /\ hlast.result = "ok"
    /\ \A a \in DOMAIN heap : ~heap[a].live

\* C24: OwnedChunk.resize(n) on a chunk that owns nothing returns an error
\* and leaves it empty; when the allocator's resize fails it returns Memory
\* and the chunk keeps its buffer and length; on success len() = n and the
\* chunk's buffer is a live buffer of n bytes.
C24_ResizeOutcomes ==
    (hlast.op = "resize" /\ hlast.result # "abort") =>
        LET chunk == owned[hlast.caller] IN
        /\ ~hlast.pre.parent =>
              hlast.status = "Memory" /\ chunk = HeapChunk_empty
        /\ (hlast.pre.parent /\ hlast.status # "None") =>
              /\ hlast.status = "Memory"
              /\ chunk = hlast.pre
              /\ heap[chunk.ptr].live /\ heap[chunk.ptr].size = chunk.len
        /\ hlast.status = "None" =>
              /\ chunk.len = hlast.size
              /\ heap[chunk.ptr].live /\ heap[chunk.ptr].size = hlast.size

\* the heap had no room for a larger buffer: the resize failed and the
\* chunk is as it was
C24_Witness ==
    /\ hlast.op = "resize"
    /\ hlast.pre.parent
    /\ hlast.result = "null"
    /\ hlast.status = "Memory"
    /\ hlast.size > hlast.pre.len
    /\ owned[hlast.caller] = hlast.pre

\* C25: a buffer is allocated with the alignment asked for (MIN_ALIGN for
\* arena chunks) and the chunk records it; resize keeps it; a release passes
\* the address, length and alignment of a live buffer; and allocate(0)
\* followed by release does not fail.
C25_AlignedAndReleased ==
    /\ (hlast.op = "allocate" /\ hlast.status = "None") =>
          /\ owned[hlast.caller].align = hlast.align
          /\ heap[owned[hlast.caller].ptr].align = hlast.align
    /\ (hlast.op = "make_arena" /\ hlast.status = "None") =>
          heap[achunks[Len(achunks)].ptr].align = MIN_ALIGN
    /\ (hlast.op = "resize" /\ hlast.result # "abort" /\ hlast.pre.parent) =>
          owned[hlast.caller].align = hlast.pre.align
    /\ hlast.op \in {"drop", "arena_drop"} => hlast.result # "bad"
    /\ (hlast.op \in {"allocate", "drop"} /\ hlast.size = 0) => hlast.result # "abort"

\* C26: with the heap calls of independent callers interleaved, two chunks
\* never hold the same buffer, the buffer of a chunk is live and has the
\* chunk's length, no step of one caller changes the chunk of another or its
\* buffer (bytes, length, liveness), no release is of a buffer that is not
\* live, and once every chunk is dropped no buffer is live.
C26_CallersIndependent ==
    /\ [](/\ \A c, d \in Callers :
               (c # d /\ owned[c].parent /\ owned[d].parent) => owned[c].ptr # owned[d].ptr
          /\ \A c \in Callers :
               owned[c].parent =>
                  heap[owned[c].ptr].live /\ heap[owned[c].ptr].size = owned[c].len
          /\ hlast.result # "bad"
          /\ (\A c \in Callers : pc[c] = "dropped") => \A a \in DOMAIN heap : ~heap[a].live)
    /\ [][\A c \in Callers :
             hlast'.caller # c =>
                /\ owned'[c] = owned[c]
                /\ pc'[c] = pc[c]
                /\ owned[c].parent => heap'[owned[c].ptr] = heap[owned[c].ptr]]_vars

\* a caller's buffer was moved by a resize while the other caller, which
\* has written its chunk, was between the two heap calls of its own resize
C26_Witness ==
    /\ hlast.op = "resize" /\ hlast.result = "ptr"
    /\ owned[hlast.caller].ptr # hlast.pre.ptr
    /\ \E d \in Callers :
          /\ d # hlast.caller
          /\ pc[d] = "resizing"
          /\ heap[owned[d].ptr].bytes = d

\* C34: after any sequence of set_capacity calls, failed ones included, the
\* null bitmap of a nullable column has exactly capacity() entries, and a
\* column that is not nullable owns no null bitmap.
C34_NullsMatchCapacity ==
    \A i \in 1..Len(columns) :
       IF columns[i].attr.nullable
       THEN columns[i].raw_nulls.len = Column_capacity(columns[i])
       ELSE columns[i].raw_nulls.isnull /\ columns[i].raw_nulls.len = 0

\* C38: Table::new(alloc, schema, Some(c)) returns a table of capacity c and
\* no rows, Table::new(alloc, schema, None) one of capacity 0.
C38_CapacityAsAsked ==
    (chain.op = "table" /\ last.op = "new")
    => /\ rows = 0
       /\ capacity = IF chain.cap.some THEN chain.cap.rows ELSE 0

\* C31: in a chain that has recorded no error the table has one row more
\* for every add_row; an add_row leaves the appender on column 0 of the row
\* it added, the k-th set / set_null after it writes column k-1 of that row:
\* set_null(v) stores the byte 1 for true and 0 for false, and the value of
\* a set is read back from that column and row.
C31_ChainWritesInOrder ==
    (chain.clean /\ chain.op \in {"add_row", "set", "set_null", "done"})
    => /\ rows = chain.rows0 + chain.adds
       /\ chain.op = "add_row"
            => /\ appender.col = 0
               /\ appender.row = chain.row_added
               /\ chain.row_added = rows - 1
       /\ chain.op \in {"set", "set_null"}
            => /\ chain.adds > 0
               /\ chain.pre.col = chain.sets - 1
               /\ appender.col = chain.sets
               /\ appender.row = chain.row_added
               /\ chain.sets <= Len(tdata)
               /\ LET d == tdata[chain.sets]
                      row == chain.row_added
                  IN CASE chain.op = "set_null" ->
                             d.nulls[row + 1] = IF chain.null THEN 1 ELSE 0
                       [] chain.value.type = "u32" -> d.values[row + 1] = chain.value.v
                       [] OTHER -> RawData_bytes(arena.chunks, d.values[row + 1])
                                   = chain.value.bytes

\* a chain without error has added two rows and set both columns of the second
C31_Witness ==
    /\ chain.clean
    /\ chain.op \in {"set", "set_null"}
    /\ chain.adds = 2
    /\ chain.sets = 2

\* C37: a call of add_row, set or set_null on an appender that has recorded
\* an error changes neither the table (rows, capacity, columns, memory,
\* arena) nor the appender; done() returns the first error recorded and
\* leaves the appender with none, which is what status() then reports.
C37_ErrorStopsChain ==
    /\ [][(appender.error # "None" /\ chain'.op \in {"add_row", "set", "set_null", "panic"})
            => /\ rows' = rows /\ capacity' = capacity /\ columns' = columns
               /\ tdata' = tdata /\ arena' = arena
               /\ appender' = appender]_vars
    /\ [][(chain'.op = "done" /\ chain'.calls > chain.calls)
            => /\ chain'.returned = chain.first
               /\ chain'.returned = appender.error
               /\ appender'.error = "None"
               /\ chain'.status = "None"]_vars

\* done() has returned an error after calls were made with that error recorded
C37_Witness ==
    /\ chain.op = "done"
    /\ chain.returned # "None"
    /\ chain.skipped > 0

\* C35: every next(b), b >= 1, on a ScanView cursor bound over R rows (the
\* rows of the source, or of the range given) returns without error; a Next
\* chunk holds min(b, rows remaining) rows and starts, in every column, at
\* the source row after the last one returned, the first at the first row
\* of the range; the offset never passes R, and at End the chunks returned
\* held R rows in all.
C35_ScanCoversRows ==
    clast.op = "next"
    => LET total == IF clast.range.some THEN clast.range.rows ELSE clast.source_rows
           first == IF clast.range.some THEN clast.range.offset ELSE 0
       IN /\ clast.kind = "Ok"
          /\ cursor.offset <= total
          /\ clast.chunk = "Next"
               => /\ clast.view.rows = Min(clast.b, total - clast.pre_offset)
                  /\ cursor.offset = clast.pre_offset + clast.view.rows
                  /\ \A i \in 1..Len(clast.view.columns) :
                        LET c == clast.view.columns[i] IN
                        /\ c.raw.start = (first + clast.pre_offset) * size_of(c.attr.dtype)
                        /\ c.attr.nullable => c.raw_nulls.start = first + clast.pre_offset
          /\ clast.chunk = "End" => clast.sum = total

\* C36: a ScanView cursor over R rows asked for batches of at least one row
\* returns at most R Next chunks, none of them empty, and End from then on:
\* a call after R calls returns End, the first call returns End when
\* R = 0, and a call after an End returns End.
C36_ScanEnds ==
    clast.op = "next"
    => LET total == IF clast.range.some THEN clast.range.rows ELSE clast.source_rows
       IN /\ total = 0 => clast.chunk = "End"
          /\ clast.ended => clast.chunk = "End"
          /\ clast.chunk = "Next" => clast.view.rows >= 1
          /\ clast.nexts <= total
          /\ clast.calls > total => clast.chunk = "End"

\* C33: every view handed out has one column per attribute of its schema,
\* column i with attribute i: the Block, the RefView of a ScanView cursor
\* and of its chunks, and the RefView of a ProjectCursor, whose schema is
\* the output schema of the bound projector.
C33_ColumnsMatchSchema ==
    /\ Len(columns) = Schema_count(schema)
    /\ \A i \in 1..Len(columns) : columns[i].attr = schema[i]
    /\ \A v \in {cursor.src, clast.view} :
          /\ Len(v.columns) = Schema_count(v.schema)
          /\ \A i \in 1..Len(v.columns) : v.columns[i].attr = v.schema[i]
    /\ (clast.op = "project" /\ clast.chunk = "Next")
          => clast.view.schema
             = SingleSourceProjector_bind(project_by_position(vlast.pos),
                                          cursor.src.schema).schema

\* C39: with offsets and row counts that are machine words, alias_column
\* and window_alias answer RowOutOfBounds to every range whose offset + rows,
\* taken as unbounded integers, is more than the capacity of the column
\* (the rows of the view).
C39_WrappedRangeRejected ==
    /\ ( /\ vlast.op = "alias_column_usize"
         /\ vlast.range.offset + vlast.range.rows
              > RefColumn_capacity(Column_as_ref(columns[vlast.pos + 1])) )
       => (vlast.kind = "Err" /\ vlast.err = "RowOutOfBounds")
    /\ (vlast.op = "window_alias_usize" /\ vlast.range.offset + vlast.range.rows > rows)
       => (vlast.kind = "Err" /\ vlast.err = "RowOutOfBounds")

\* C32: BoundOneColMapper.map of a nullable input column into a nullable
\* output column, both called nullable in the type parameters, returns Ok;
\* output row i has a null byte other than 0 exactly when input row i has
\* one, and an input row that is not null gives an output row holding
\* map_value of its value.
C32_NullsPassedAlong ==
    ( /\ mlast.op = "map"
      /\ mlast.IT = "UINT32"
      /\ mlast.in_nullable /\ mlast.out_nullable
      /\ schema[1].nullable /\ schema[2].nullable )
    => /\ mlast.kind = "Ok"
       /\ \A i \in 1..capacity :
             /\ tdata[2].nulls[i] # 0 <=> tdata[1].nulls[i] # 0
             /\ tdata[1].nulls[i] = 0 => tdata[2].values[i] = map_value(tdata[1].values[i])

====
